---- MODULE Spec2Model ----
(***************************************************************************)
(* A model of create_forcing_classic.py: main() builds the Machine, reads  *)
(* the recipe, builds one SinglePointExtractor from it (instruction_dict), *)
(* runs the shared, land and atmosphere stages and packs the output.       *)
(* Spec is that run; SpecShared is the run on a filesystem another process *)
(* writes to; SpecMakeDir is make_dir called on its own; SpecPack is       *)
(* tar_output on its own; SpecRoots is the run of recipes whose tar output *)
(* directory may lie inside the local one; SpecLoop is main() with two     *)
(* recipes; SpecPrompt is the run with an operator who in the end answers  *)
(* a conflict prompt with 'a' or 'd'.  SpecLon and SpecMetadata are        *)
(* plon_type and update_metadata of create_site_forcing.py called on their *)
(* own, and SpecLogger is StreamToLogger, which both files define.         *)
(*                                                                         *)
(* A recipe is a Python dict, modelled as the sequence of its items in     *)
(* insertion order.  A path is a pathlib.Path, modelled as the sequence of *)
(* its parts; None is the empty sequence.  A shell command is the sequence *)
(* of its ';'-separated parts, each with the exit status it ended with.    *)
(***************************************************************************)
EXTENDS Naturals, Sequences, FiniteSets, TLC

VARIABLES
    instruction_dict,         \* self.instruction_dict, the recipe
    pc,                       \* the position of main(): the method about to run
    prompts,                  \* inputs read so far by the running prompt loop
    dirs,                     \* the directories that exist
    files,                    \* the regular files that exist
    scrip_map_file_path,      \* Stage Context
    scrip_grid_file_path,
    domain_file_path,
    created_files_path_list,  \* the artifact list
    cmds,                     \* every command handed to run_process, in order
    calls,                    \* every stage and sub-step method entered, in order
    returned,                 \* the methods that returned without raising
    raised,                   \* the exception that ended the run, if any
    machine,                  \* the Machine main() built, NoMachine before
    user_input_rmdir,         \* the last answer read by __init__, "" when none
    has_created_files_path_list,  \* line 256 was executed
    fs_at_start,              \* dirs and files when the process started
    archive,                  \* the tar file in tar_output_dir, if made
    recipe_dict_list,         \* the recipes main() has still to process
    linebuf,                  \* StreamToLogger.linebuf, a sequence of characters
    logged                    \* the messages StreamToLogger gave to its logger

vars == <<instruction_dict, pc, prompts, dirs, files, scrip_map_file_path,
          scrip_grid_file_path, domain_file_path, created_files_path_list,
          cmds, calls, returned, raised, machine, user_input_rmdir,
          has_created_files_path_list, fs_at_start, archive,
          recipe_dict_list, linebuf, logged>>

\* make_dir on its own is called at most this many times in a row, on paths
\* of at most this many parts.
MaxCalls == 2
MaxDepth == 2

\* The operator may answer a conflict prompt this many times with something
\* other than 'a' or 'd' before the model stops counting.
MaxPrompts == 2

\* At most this many commands of one run have a failing tool whose failure
\* the shell does not report (the run goes on after them).
MaxToolFailures == 1

\* The longest text one call of StreamToLogger.write is given.
MaxBuf == 2

(***************************************************************************)
(* Recipes                                                                 *)
(***************************************************************************)
None == <<>>

NoneItem(k) == [key |-> k, kind |-> "none", b |-> FALSE, s |-> "", items |-> <<>>]
StrItem(k, v) == [key |-> k, kind |-> "str", b |-> FALSE, s |-> v, items |-> <<>>]
BoolItem(k, v) == [key |-> k, kind |-> "bool", b |-> v, s |-> "", items |-> <<>>]
DictItem(k, d) == [key |-> k, kind |-> "dict", b |-> FALSE, s |-> "", items |-> d]

\* A leaf that is null when `isnull`, the string v otherwise.
Leaf(k, v, isnull) == IF isnull THEN NoneItem(k) ELSE StrItem(k, v)

\* d[k] of a Python dict.
Get(d, k) == LET i == CHOOSE j \in 1..Len(d) : d[j].key = k IN d[i]

\* d[k1][k2]... down a chain of nested mappings.
RECURSIVE GetIn(_, _)
GetIn(d, ks) ==
    IF Len(ks) = 1 THEN Get(d, ks[1])
    ELSE GetIn(Get(d, ks[1]).items, Tail(ks))

\* Python truthiness of a value.
Truthy(v) ==
    CASE v.kind = "none" -> FALSE
      [] v.kind = "bool" -> v.b
      [] v.kind = "str" -> v.s # ""
      [] v.kind = "dict" -> v.items # <<>>

\* self.site_code and self.version, lines 246 and 250.
site_code == Get(instruction_dict, "site_code").s
version == Get(instruction_dict, "version").s
ctsm_date == "261106"

\* Where a recipe leaves a required field null; "land_atm" leaves every
\* entry of the land and atmosphere sections null.
NullPlaces == {"nowhere", "top", "root_path", "urban", "clm", "land_atm"}

\* The SCRIP entry of the recipe: created anew, or pre-supplied with each of
\* its three paths given or null.
ScripModes == {"new", "given", "no_path", "no_map_path", "no_grid_path"}

\* The domain entry of the recipe.
DomainModes == {"new", "given", "no_path"}

ScripEntry(mode) ==
    <<BoolItem("create_new", mode = "new"),
      Leaf("path", "scrip_dir", mode \in {"new", "no_path"}),
      Leaf("map_path", "given_map.nc", mode \in {"new", "no_map_path"}),
      Leaf("grid_path", "given_grid.nc", mode \in {"new", "no_grid_path"})>>

DomainEntry(mode) ==
    <<BoolItem("create_new", mode = "new"),
      Leaf("path", "given_domain.nc", mode \in {"new", "no_path"})>>

\* The recipe of the template, with one required field null at `nullAt`.
\* "top" adds a null required field at the top level of the recipe.
\* `site` is its site code and `tar_root` its tar_output_dir.
SiteRecipe(site, tar_root, nullAt, scrip, domain) ==
    <<StrItem("version", "v1"),
      StrItem("site_code", site),
      DictItem("coordinates", <<StrItem("lat", "61.0"), StrItem("lon", "8.1")>>),
      StrItem("elevation", "1200"),
      DictItem("output", <<StrItem("local_output", "out"),
                           StrItem("tar_output_dir", tar_root)>>),
      StrItem("ctsm_path", "ctsm"),
      DictItem("nc_input_paths",
        <<Leaf("root_path", "raw", nullAt = "root_path"),
          DictItem("share", <<DictItem("SCRIP", ScripEntry(scrip)),
                              DictItem("domain", DomainEntry(domain))>>),
          DictItem("land",
            <<Leaf("urban", "urban.nc", nullAt \in {"urban", "land_atm"}),
              DictItem("snow",
                <<Leaf("aging_parameters", "aging.nc", nullAt = "land_atm"),
                  Leaf("optical_properties", "optics.nc", nullAt = "land_atm")>>),
              Leaf("fire", "popden.nc", nullAt = "land_atm"),
              DictItem("parameter_files",
                <<Leaf("clm", "clm5_params.nc", nullAt \in {"clm", "land_atm"}),
                  Leaf("fates", "fates_params.nc", nullAt = "land_atm")>>)>>),
          DictItem("atmosphere",
            <<DictItem("climate",
                <<DictItem("GSWP3",
                    <<Leaf("root_path", "gswp3", nullAt = "land_atm"),
                      Leaf("year_start", "1901", nullAt = "land_atm"),
                      Leaf("year_end", "2014", nullAt = "land_atm")>>)>>),
              Leaf("topography", "topo.nc", nullAt = "land_atm"),
              Leaf("lightning", "lis.nc", nullAt = "land_atm"),
              Leaf("aerosol_deposition", "aerdep.nc", nullAt = "land_atm")>>)>>)>>
    \o (IF nullAt = "top" THEN <<NoneItem("surface")>> ELSE <<>>)

\* The recipe of the site ALP1, its two output roots apart.
Recipe(nullAt, scrip, domain) ==
    SiteRecipe("ALP1", "tar", nullAt, scrip, domain)

\* The site codes of the recipes.
Sites == {"ALP1", "ALP2"}

\* A tar_output_dir inside the local output directory of the site ALP1.
NestedTarRoot == "out/ALP1_v1/inputdata"

minimum_required ==
    {"surface", "urban", "aging_parameters", "optical_properties", "fire",
     "clm", "fates", "topography", "lightning", "aerosol_deposition",
     "root_path"}

\* ceck_minimum_required: walks the items in order.  The result of the
\* recursive call on a nested mapping is dropped (line 346); only a null
\* required leaf of the mapping itself returns False.
RECURSIVE ceck_from(_, _)
ceck_from(ins_dict, i) ==
    IF i > Len(ins_dict) THEN TRUE
    ELSE IF ins_dict[i].kind = "dict"
         THEN LET dropped == ceck_from(ins_dict[i].items, 1)
              IN  ceck_from(ins_dict, i + 1)
         ELSE IF ins_dict[i].kind = "none" /\ ins_dict[i].key \in minimum_required
              THEN FALSE
              ELSE ceck_from(ins_dict, i + 1)

ceck_minimum_required(ins_dict) == ceck_from(ins_dict, 1)

(***************************************************************************)
(* Paths and the filesystem                                                *)
(***************************************************************************)
\* Path(s): the parts of s between its "/", for the strings of the recipes.
PathOf(s) ==
    CASE s = "out/ALP1_v1/inputdata" -> <<"out", "ALP1_v1", "inputdata">>
      [] OTHER -> <<s>>

\* path / name
Join(path, name) == Append(path, name)

\* The path and every parent of it.
Prefixes(path) == {SubSeq(path, 1, n) : n \in 1..Len(path)}

IsUnder(path, root) ==
    Len(path) >= Len(root) /\ SubSeq(path, 1, Len(root)) = root

\* A test that finds no directory anywhere.
is_dir_never(path, ds) == FALSE

\* path.is_dir()
is_dir(path, ds) == path \in ds

\* mkdir(parents=True, exist_ok=True), which accepts an existing directory.
make_dir_exist_ok(path, ds) == FALSE

\* make_dir: mkdir(parents=True, exist_ok=False) raises FileExistsError on an
\* existing path, and the except clause re-raises it.
make_dir_raises(path, ds) == path \in ds

\* The directories after a make_dir that did not raise.
make_dir(path, ds) == ds \cup Prefixes(path)

\* What is left of a set of paths after "rm -rf root" succeeded.
rm_rf(root, paths) == {p \in paths : ~IsUnder(p, root)}

\* self.output_dir and self.tar_output_dir (lines 263-265, 285-287).
OutputDirOf(d) ==
    Join(PathOf(GetIn(d, <<"output", "local_output">>).s),
         Get(d, "site_code").s \o "_" \o Get(d, "version").s)

TarOutputDirOf(d) ==
    Join(PathOf(GetIn(d, <<"output", "tar_output_dir">>).s),
         Get(d, "site_code").s \o "_" \o Get(d, "version").s)

output_dir == OutputDirOf(instruction_dict)
tar_output_dir == TarOutputDirOf(instruction_dict)

(***************************************************************************)
(* Shell commands and run_process                                          *)
(***************************************************************************)
\* Exit statuses: 0, or 1 for any nonzero status.
Status == {0, 1}

\* One ';'-separated part of a command string: an external tool, or an
\* auxiliary command (module purge, module load, cd, ulimit, mv, source).
Tool(st) == [kind |-> "tool", st |-> st]
Aux(st) == [kind |-> "aux", st |-> st]

\* sh -c "p1; p2; ...; pn;" exits with the status of pn.
ExitStatus(parts) == parts[Len(parts)].st

ToolsOk(parts) == \A i \in 1..Len(parts) : parts[i].kind = "tool" => parts[i].st = 0

\* What run_process was handed by `step`, and how the shell ended.
Issued(step, parts) ==
    [step |-> step, status |-> ExitStatus(parts), tools_ok |-> ToolsOk(parts)]

\* run_process as it would be with check=False.
run_process_no_check(status) == FALSE

\* subprocess.run(..., check=True) raises CalledProcessError on a nonzero
\* exit status.
run_process_raises(status) == status # 0

\* No tar file; otherwise the paths of its members, relative to inputdata.
NoArchive == [made |-> FALSE, members |-> {}]
Archive(members) == [made |-> TRUE, members |-> members]

NoExc == [exc |-> "", at |-> ""]
Exc(e, at) == [exc |-> e, at |-> at]

\* A raise that is caught and skipped over.
PropagateSkipped(next) == next

\* No try/except in main or in the class catches an exception (make_dir
\* re-raises): a raise in a step ends the run instead of reaching `next`.
Propagate(next) == "error"

(***************************************************************************)
(* The order of main() and of the stages                                   *)
(***************************************************************************)
\* main() calling the land stage before the shared stage.
StageAfterLandFirst(stage) ==
    CASE stage = "__init__" -> "create_land_forcing"
      [] stage = "create_land_forcing" -> "create_share_forcing"
      [] stage = "create_share_forcing" -> "create_atm_forcing"
      [] stage = "create_atm_forcing" -> "tar_output"
      [] stage = "tar_output" -> "done"

\* main() without the call of create_atm_forcing.
StageAfterNoAtm(stage) ==
    CASE stage = "__init__" -> "create_share_forcing"
      [] stage = "create_share_forcing" -> "create_land_forcing"
      [] stage = "create_land_forcing" -> "tar_output"
      [] stage = "create_atm_forcing" -> "tar_output"
      [] stage = "tar_output" -> "done"

\* main(), lines 1074-1084.
StageAfter(stage) ==
    CASE stage = "__init__" -> "create_share_forcing"
      [] stage = "create_share_forcing" -> "create_land_forcing"
      [] stage = "create_land_forcing" -> "create_atm_forcing"
      [] stage = "create_atm_forcing" -> "tar_output"
      [] stage = "tar_output" -> "done"

ShareEntry(d, name) == GetIn(d, <<"nc_input_paths", "share", name>>).items

\* A SCRIP entry that is taken as new whatever its create_new says.
ScripNewAlways(d) == TRUE

ScripNew(d) == Truthy(Get(ShareEntry(d, "SCRIP"), "create_new"))
DomainNew(d) == Truthy(Get(ShareEntry(d, "domain"), "create_new"))

(***************************************************************************)
(* Machine, and main() up to the loop over the recipes                     *)
(***************************************************************************)
\* machine_properties.yaml, dict_['machines']: for each machine its
\* 'module_names', given here by the tool categories it has a module for.
MachineStore == [saga |-> {"ncl", "nco"}, fram |-> {"nco"}]

\* -m: a machine of the store, or a name the store does not have.
MachineNames == {"saga", "fram", "betzy"}

NoMachine == [name |-> "", module_names |-> {}]

\* Machine(name), for a name of the store.
Machine(name) == [name |-> name, module_names |-> MachineStore[name]]

\* dict_['machines'][machine_name] raises KeyError for an unknown name.
_read_properties_raises(name) == name \notin DOMAIN MachineStore

\* property_dict['module_names'][module_type] raises KeyError when the
\* machine has no module of that category.
generate_load_module_str_raises(m, module_type) ==
    module_type \notin m.module_names

\* What the recipe arguments may name: a directory with a recipe in it, a
\* directory without yaml files, a recipe file; any other name is missing.
YamlDirs == {"recipes", "empty_dir"}
YamlFilesOf(dir) == IF dir = "recipes" THEN {"site.yaml"} ELSE {}
YamlFiles == {"site.yaml"}

\* The parsed command line; "" is the default of -d.
Args ==
    [machine : MachineNames,
     yaml_dir : {"", "recipes", "empty_dir", "missing_dir"},
     yaml_file : {"", "site.yaml", "missing.yaml"}]

\* main(), lines 1034-1067: the cases that end in sys.exit().
NoRecipes(args) ==
    IF args.yaml_dir # ""
    THEN \/ args.yaml_dir \notin YamlDirs
         \/ YamlFilesOf(args.yaml_dir) = {}
    ELSE IF args.yaml_file # ""
         THEN args.yaml_file \notin YamlFiles
         ELSE TRUE

\* sys.exit() is called without an argument (lines 276, 298, 314, 1040,
\* 1052, 1060, 1067): SystemExit(None) ends the process with status 0.  An
\* uncaught exception of another class ends it with status 1, and so does
\* no exception at all end it with status 0.
ExitStatusOf(exc) ==
    CASE exc = "" -> 0
      [] exc = "SystemExit" -> 0
      [] OTHER -> 1

(***************************************************************************)
(* Construction: SinglePointExtractor.__init__                             *)
(***************************************************************************)
Inputs == {"a", "A", "d", "D", "x"}

\* An answer compared as it was typed.
LowerNot(s) == s

\* str.lower()
Lower(s) == CASE s = "A" -> "a" [] s = "D" -> "d" [] OTHER -> s

Init ==
    /\ \E nullAt \in NullPlaces, scrip \in ScripModes, domain \in DomainModes :
           instruction_dict = Recipe(nullAt, scrip, domain)
    /\ pc = "main"
    /\ prompts = 0
    /\ \E local \in BOOLEAN, tar \in BOOLEAN :
           /\ dirs = (IF local THEN Prefixes(Join(output_dir, "share")) ELSE {})
                     \cup (IF tar THEN Prefixes(tar_output_dir) ELSE {})
           /\ files = (IF local THEN {Join(output_dir, "old.nc")} ELSE {})
    /\ scrip_map_file_path = None
    /\ scrip_grid_file_path = None
    /\ domain_file_path = None
    /\ created_files_path_list = <<>>
    /\ cmds = <<>>
    /\ calls = <<>>
    /\ returned = {}
    /\ raised = NoExc
    /\ machine = NoMachine
    /\ user_input_rmdir = ""
    /\ has_created_files_path_list = FALSE
    /\ fs_at_start = [dirs |-> dirs, files |-> files]
    /\ archive = NoArchive
    /\ linebuf = <<>>
    /\ logged = <<>>
    /\ recipe_dict_list = <<>>

\* main(), lines 1015-1067: the machine is built first, then the recipes
\* are read; the model goes on with the recipe instruction_dict.
main ==
    /\ pc = "main"
    /\ \E args \in Args :
        IF _read_properties_raises(args.machine)
        THEN /\ pc' = Propagate("local_output_dir")
             /\ raised' = Exc("KeyError", "Machine")
             /\ UNCHANGED machine
        ELSE /\ machine' = Machine(args.machine)
             /\ IF NoRecipes(args)
                THEN /\ pc' = "exit"
                     /\ raised' = Exc("SystemExit", "main")
                ELSE /\ pc' = "local_output_dir"
                     /\ UNCHANGED raised
    /\ UNCHANGED <<instruction_dict, prompts, dirs, files, scrip_map_file_path,
                   scrip_grid_file_path, domain_file_path,
                   created_files_path_list, cmds, calls, returned,
                   user_input_rmdir, has_created_files_path_list, fs_at_start,
                   archive, recipe_dict_list, linebuf, logged>>

\* Lines 246-267: the local output directory is created when absent.
LocalOutputDir ==
    /\ pc = "local_output_dir"
    /\ IF ~is_dir(output_dir, dirs)
       THEN /\ dirs' = make_dir(output_dir, dirs)
            /\ pc' = "tar_output_dir"
       ELSE /\ pc' = "prompt_local"
            /\ UNCHANGED dirs
    /\ has_created_files_path_list' = TRUE
    /\ UNCHANGED <<linebuf, logged, archive, recipe_dict_list, machine, fs_at_start, user_input_rmdir>>
    /\ UNCHANGED <<instruction_dict, prompts, files, scrip_map_file_path,
                   scrip_grid_file_path, domain_file_path,
                   created_files_path_list, cmds, calls, returned, raised>>

\* One pass of a conflict prompt loop (lines 270-282, 292-304) on `path`.
Prompt(here, path, next) ==
    /\ pc = here
    /\ \E inp \in Inputs :
        /\ user_input_rmdir' = inp
        /\ CASE Lower(inp) = "a" ->
                  /\ pc' = "exit"
                  /\ raised' = Exc("SystemExit", here)
                  /\ prompts' = 0
                  /\ UNCHANGED <<dirs, files, cmds>>
             [] Lower(inp) = "d" ->
                  \E st \in Status :
                    /\ cmds' = Append(cmds, Issued(here, <<Tool(st)>>))
                    /\ prompts' = 0
                    /\ IF run_process_raises(st)
                       THEN /\ pc' = Propagate(next)
                            /\ raised' = Exc("CalledProcessError", here)
                            /\ UNCHANGED <<dirs, files>>
                       ELSE /\ pc' = next
                            /\ dirs' = make_dir(path, rm_rf(path, dirs))
                            /\ files' = rm_rf(path, files)
                            /\ UNCHANGED raised
             [] OTHER ->
                  /\ prompts' = IF prompts < MaxPrompts THEN prompts + 1 ELSE prompts
                  /\ UNCHANGED <<pc, raised, dirs, files, cmds>>
    /\ UNCHANGED <<linebuf, logged, archive, recipe_dict_list, machine, fs_at_start, has_created_files_path_list>>
    /\ UNCHANGED <<instruction_dict, scrip_map_file_path, scrip_grid_file_path,
                   domain_file_path, created_files_path_list, calls, returned>>

\* A prompt for the local output directory after which the construction goes
\* on past the tar output directory.
PromptLocalSkipsTar == Prompt("prompt_local", output_dir, "input_checks")

PromptLocal == Prompt("prompt_local", output_dir, "tar_output_dir")

\* Lines 284-289.
TarOutputDir ==
    /\ pc = "tar_output_dir"
    /\ IF ~is_dir(tar_output_dir, dirs)
       THEN /\ dirs' = make_dir(tar_output_dir, dirs)
            /\ pc' = "input_checks"
       ELSE /\ pc' = "prompt_tar"
            /\ UNCHANGED dirs
    /\ UNCHANGED <<linebuf, logged, archive, recipe_dict_list, machine, fs_at_start, has_created_files_path_list,
                   user_input_rmdir>>
    /\ UNCHANGED <<instruction_dict, prompts, files, scrip_map_file_path,
                   scrip_grid_file_path, domain_file_path,
                   created_files_path_list, cmds, calls, returned, raised>>

PromptTar == Prompt("prompt_tar", tar_output_dir, "input_checks")

\* _check_shared_input, lines 357-362: a pre-supplied component without a
\* 'path' raises ValueError.
SharedPathMissing(d) ==
    LET share == GetIn(d, <<"nc_input_paths", "share">>).items
    IN  \E i \in 1..Len(share) :
            /\ ~Truthy(Get(share[i].items, "create_new"))
            /\ Get(share[i].items, "path").kind = "none"

\* Lines 364-371: what each Stage Context path becomes, `cur` being its
\* value before.  Path(None) raises TypeError, so these apply to non-null
\* entries only.
AdoptScripMap(d, cur) ==
    IF ~ScripNew(d) THEN PathOf(Get(ShareEntry(d, "SCRIP"), "map_path").s) ELSE cur

\* The grid path read from the 'map_path' key.
AdoptScripGridFromMap(d, cur) ==
    IF ~ScripNew(d) THEN PathOf(Get(ShareEntry(d, "SCRIP"), "map_path").s) ELSE cur

AdoptScripGrid(d, cur) ==
    IF ~ScripNew(d) THEN PathOf(Get(ShareEntry(d, "SCRIP"), "grid_path").s) ELSE cur

\* _check_shared_input without lines 369-371.
AdoptDomainNever(d, cur) == cur

AdoptDomain(d, cur) ==
    IF ~DomainNew(d) THEN PathOf(Get(ShareEntry(d, "domain"), "path").s) ELSE cur

\* Lines 306-315: root_path, ceck_minimum_required and _check_shared_input.
\* __init__ ends here, and its local user_input_rmdir with it.
InputChecks ==
    /\ pc = "input_checks"
    /\ LET d == instruction_dict
           scrip == ShareEntry(d, "SCRIP")
           fail(e, at) == /\ pc' = Propagate("create_share_forcing")
                          /\ raised' = Exc(e, at)
       IN
       CASE GetIn(d, <<"nc_input_paths", "root_path">>).kind = "none" ->
              /\ fail("TypeError", "__init__")
              /\ UNCHANGED <<scrip_map_file_path, scrip_grid_file_path,
                             domain_file_path, returned>>
         [] OTHER ->
       CASE ~ceck_minimum_required(d) ->
              /\ pc' = "exit"
              /\ raised' = Exc("SystemExit", "ceck_minimum_required")
              /\ UNCHANGED <<scrip_map_file_path, scrip_grid_file_path,
                             domain_file_path, returned>>
         [] OTHER ->
       CASE SharedPathMissing(d) ->
              /\ fail("ValueError", "_check_shared_input")
              /\ UNCHANGED <<scrip_map_file_path, scrip_grid_file_path,
                             domain_file_path, returned>>
         [] ~ScripNew(d) /\ Get(scrip, "map_path").kind = "none" ->
              /\ fail("TypeError", "_check_shared_input")
              /\ UNCHANGED <<scrip_map_file_path, scrip_grid_file_path,
                             domain_file_path, returned>>
         [] ~ScripNew(d) /\ Get(scrip, "map_path").kind # "none"
                         /\ Get(scrip, "grid_path").kind = "none" ->
              /\ fail("TypeError", "_check_shared_input")
              /\ scrip_map_file_path' = AdoptScripMap(d, scrip_map_file_path)
              /\ UNCHANGED <<scrip_grid_file_path, domain_file_path, returned>>
         [] OTHER ->
              /\ scrip_map_file_path' = AdoptScripMap(d, scrip_map_file_path)
              /\ scrip_grid_file_path' = AdoptScripGrid(d, scrip_grid_file_path)
              /\ domain_file_path' = AdoptDomain(d, domain_file_path)
              /\ pc' = StageAfter("__init__")
              /\ returned' = returned \cup {"__init__"}
              /\ UNCHANGED raised
    /\ user_input_rmdir' = ""
    /\ UNCHANGED <<linebuf, logged, archive, recipe_dict_list, machine, fs_at_start, has_created_files_path_list>>
    /\ UNCHANGED <<instruction_dict, prompts, dirs, files,
                   created_files_path_list, cmds, calls>>

(***************************************************************************)
(* Sub-steps: what they share                                              *)
(***************************************************************************)
\* The commands issued so far in which an external tool exited nonzero.
FailCount == Cardinality({i \in 1..Len(cmds) : ~cmds[i].tools_ok})

\* The exit statuses an external tool may end with now.
ToolStatus == IF FailCount < MaxToolFailures THEN Status ELSE {0}

\* glob.glob(dir + pattern): the files of `names`, which are the names the
\* pattern matches, that exist in dir, as paths.  glob returns them in
\* directory order; the model lists them in the order of `names`.
Glob(dir, names, fs) ==
    LET Exists(n) == Join(dir, n) \in fs
        found == SelectSeq(names, Exists)
    IN  [i \in 1..Len(found) |-> Join(dir, found[i])]

\* 0 when a glob handed to mv matches a file, as mv of no file fails.
MvStatus(made) == IF made = {} THEN 1 ELSE 0

\* nc_in_str.replace('.nc', '')
NoSuffix(s) ==
    CASE s = "urban.nc" -> "urban"
      [] s = "popden.nc" -> "popden"
      [] s = "topo.nc" -> "topo"
      [] s = "lis.nc" -> "lis"
      [] s = "aerdep.nc" -> "aerdep"
      [] OTHER -> s

\* Path(out_str + nc_str_no_suffix + "_" + site_code + ".nc"): the strings
\* are concatenated without a separator, so the name is appended to the
\* last part of out_path.
ConcatPath(out_path, stem) ==
    Join(SubSeq(out_path, 1, Len(out_path) - 1),
         out_path[Len(out_path)] \o stem \o "_" \o site_code \o ".nc")

\* A list that takes each new path at its front.
_add_file_path_to_list_front(list, path) == <<path>> \o list

\* _add_file_path_to_list, lines 407-408, on the list `list`.
_add_file_path_to_list(list, path) == Append(list, path)

\* [self._add_file_path_to_list(Path(f)) for f in paths]
RECURSIVE AddEach(_, _)
AddEach(list, paths) ==
    IF paths = <<>> THEN list
    ELSE AddEach(_add_file_path_to_list(list, Head(paths)), Tail(paths))

\* The stage a sub-step belongs to.
StageOf(step) ==
    CASE step \in {"_create_scrip", "_create_mapping", "_create_domain"} ->
           "create_share_forcing"
      [] step \in {"_create_surface", "_create_urban", "_add_snow_files",
                   "_create_fire", "_add_parameter_files"} ->
           "create_land_forcing"
      [] step \in {"_create_climate", "_create_topography",
                   "_create_atm_lightning", "_create_atm_aerosol"} ->
           "create_atm_forcing"
      [] OTHER -> step

\* Steps that all make the same directory.
OutPathOneDir(step) == Join(output_dir, "inputdata")

\* The directory a step makes for its output (output_path, out_path), and
\* for tar_output the staging directory.
OutPath(step) ==
    CASE step = "_create_scrip" -> output_dir \o <<"share", "scripgrids", site_code>>
      [] step = "_create_mapping" ->
           output_dir \o <<"lnd", "clm2", "mappingdata", "maps", site_code>>
      [] step = "_create_domain" -> output_dir \o <<"share", "domains", site_code>>
      [] step = "_create_surface" ->
           output_dir \o <<"lnd", "clm2", "surfdata_map", site_code>>
      [] step = "_create_urban" -> output_dir \o <<"lnd", "clm2", "urbandata">>
      [] step = "_add_snow_files" -> output_dir \o <<"lnd", "clm2", "snicardata">>
      [] step = "_create_fire" -> output_dir \o <<"lnd", "clm2", "firedata">>
      [] step = "_add_parameter_files" -> output_dir \o <<"lnd", "clm2", "paramdata">>
      [] step = "_create_climate" ->
           output_dir \o <<"atm", "datm7", "GSWP3v1", site_code>>
      [] step = "_create_topography" ->
           output_dir \o <<"atm", "datm7", "topo_forcing">>
      [] step = "_create_atm_lightning" -> output_dir \o <<"atm", "datm7", "NASA_LIS">>
      [] step = "_create_atm_aerosol" ->
           output_dir \o <<"atm", "cam", "chem", "trop_mozart_aero", "aero">>
      [] step = "tar_output" -> Join(output_dir, "inputdata")

\* A step raised e: nothing more of it happens.
Raise(step, e, next) ==
    /\ pc' = Propagate(next)
    /\ raised' = Exc(e, step)
    /\ UNCHANGED returned

\* A step returned; `last` tells whether its stage returns with it.
Return(step, next, last) ==
    /\ pc' = next
    /\ returned' = returned \cup {step} \cup (IF last THEN {StageOf(step)} ELSE {})
    /\ UNCHANGED raised

(***************************************************************************)
(* The shared stage                                                        *)
(***************************************************************************)
ScripGridName == "SCRIPgrid_" \o site_code \o "_nomask_c" \o ctsm_date \o ".nc"
ScripMapName ==
    "map_" \o site_code \o "_noocean_to_" \o site_code \o "_nomask_aave_da_"
    \o ctsm_date \o ".nc"
ScripNames == <<ScripGridName, ScripMapName>>

MappingName == "map_1x1_" \o site_code \o "_aave_da_c" \o ctsm_date \o ".nc"

DomainLndName == "domain.lnd." \o site_code \o "." \o ctsm_date \o ".nc"
DomainOcnName ==
    "domain.ocn." \o site_code \o "_" \o site_code \o "." \o ctsm_date \o ".nc"
DomainNames == <<DomainLndName, DomainOcnName>>

Range(seq) == {seq[i] : i \in 1..Len(seq)}

\* What a tool left behind: any of its files, whatever its exit status (the
\* sub-steps look for the files themselves, by name).
Made(t, names) == SUBSET Range(names)

\* The step after _create_scrip and _create_mapping, lines 423-425.
AfterMapping(d) ==
    IF DomainNew(d) THEN "_create_domain" ELSE StageAfter("create_share_forcing")

\* create_share_forcing, lines 414-425.
create_share_forcing ==
    /\ pc = "create_share_forcing"
    /\ calls' = Append(calls, "create_share_forcing")
    /\ IF ScripNew(instruction_dict)
       THEN pc' = "_create_scrip" /\ UNCHANGED returned
       ELSE IF DomainNew(instruction_dict)
            THEN pc' = "_create_domain" /\ UNCHANGED returned
            ELSE /\ pc' = StageAfter("create_share_forcing")
                 /\ returned' = returned \cup {"create_share_forcing"}
    /\ UNCHANGED <<linebuf, logged, archive, recipe_dict_list, machine, fs_at_start, has_created_files_path_list,
                   user_input_rmdir>>
    /\ UNCHANGED <<instruction_dict, prompts, dirs, files, scrip_map_file_path,
                   scrip_grid_file_path, domain_file_path,
                   created_files_path_list, cmds, raised>>

\* _create_scrip, lines 458-509.
_create_scrip ==
    /\ pc = "_create_scrip"
    /\ calls' = Append(calls, "_create_scrip")
    /\ LET step == "_create_scrip"
           output_path == OutPath(step)
       IN
       IF make_dir_raises(output_path, dirs)
       THEN /\ Raise(step, "FileExistsError", "_create_mapping")
            /\ UNCHANGED <<dirs, files, cmds, created_files_path_list,
                           scrip_map_file_path, scrip_grid_file_path>>
       ELSE IF generate_load_module_str_raises(machine, "ncl")
       THEN /\ dirs' = make_dir(output_path, dirs)
            /\ Raise(step, "KeyError", "_create_mapping")
            /\ UNCHANGED <<files, cmds, created_files_path_list,
                           scrip_map_file_path, scrip_grid_file_path>>
       ELSE \E t \in ToolStatus, p \in Status : \E made \in Made(t, ScripNames) :
            LET parts == <<Aux(0), Aux(0), Tool(t), Aux(MvStatus(made)), Aux(p)>>
                fs == files \cup {Join(output_path, n) : n \in made}
            IN
            /\ dirs' = make_dir(output_path, dirs)
            /\ files' = fs
            /\ cmds' = Append(cmds, Issued(step, parts))
            /\ IF run_process_raises(ExitStatus(parts))
               THEN /\ Raise(step, "CalledProcessError", "_create_mapping")
                    /\ UNCHANGED <<created_files_path_list, scrip_map_file_path,
                                   scrip_grid_file_path>>
               ELSE /\ created_files_path_list' =
                           AddEach(created_files_path_list,
                                   Glob(output_path, ScripNames, fs))
                    /\ IF Join(output_path, ScripMapName) \notin fs
                       THEN /\ Raise(step, "ValueError", "_create_mapping")
                            /\ UNCHANGED <<scrip_map_file_path, scrip_grid_file_path>>
                       ELSE /\ scrip_map_file_path' = Join(output_path, ScripMapName)
                            /\ IF Join(output_path, ScripGridName) \notin fs
                               THEN /\ Raise(step, "ValueError", "_create_mapping")
                                    /\ UNCHANGED scrip_grid_file_path
                               ELSE /\ scrip_grid_file_path' =
                                           Join(output_path, ScripGridName)
                                    /\ Return(step, "_create_mapping", FALSE)
    /\ UNCHANGED <<linebuf, logged, archive, recipe_dict_list, machine, fs_at_start, has_created_files_path_list,
                   user_input_rmdir>>
    /\ UNCHANGED <<instruction_dict, prompts, domain_file_path>>

\* _create_mapping, lines 555-583.  The command ends with "cd <code_dir>;".
_create_mapping ==
    /\ pc = "_create_mapping"
    /\ calls' = Append(calls, "_create_mapping")
    /\ LET step == "_create_mapping"
           next == AfterMapping(instruction_dict)
           output_path == OutPath(step)
       IN
       IF make_dir_raises(output_path, dirs)
       THEN /\ Raise(step, "FileExistsError", next)
            /\ UNCHANGED <<dirs, files, cmds, created_files_path_list>>
       ELSE \E t \in ToolStatus, p \in Status : \E made \in Made(t, <<MappingName>>) :
            LET parts == <<Aux(0), Aux(0), Tool(t), Aux(MvStatus(made)), Aux(p),
                           Aux(0)>>
                fs == files \cup {Join(output_path, n) : n \in made}
            IN
            /\ dirs' = make_dir(output_path, dirs)
            /\ files' = fs
            /\ cmds' = Append(cmds, Issued(step, parts))
            /\ IF run_process_raises(ExitStatus(parts))
               THEN /\ Raise(step, "CalledProcessError", next)
                    /\ UNCHANGED created_files_path_list
               ELSE /\ created_files_path_list' =
                           AddEach(created_files_path_list,
                                   Glob(output_path, <<MappingName>>, fs))
                    /\ Return(step, next, ~DomainNew(instruction_dict))
    /\ UNCHANGED <<linebuf, logged, archive, recipe_dict_list, machine, fs_at_start, has_created_files_path_list,
                   user_input_rmdir>>
    /\ UNCHANGED <<instruction_dict, prompts, scrip_map_file_path,
                   scrip_grid_file_path, domain_file_path>>

\* _create_domain, lines 513-551: gen_domain, then the two mv.
_create_domain ==
    /\ pc = "_create_domain"
    /\ calls' = Append(calls, "_create_domain")
    /\ LET step == "_create_domain"
           next == StageAfter("create_share_forcing")
           output_path == OutPath(step)
       IN
       IF make_dir_raises(output_path, dirs)
       THEN /\ Raise(step, "FileExistsError", next)
            /\ UNCHANGED <<dirs, files, cmds, created_files_path_list,
                           domain_file_path>>
       ELSE \E t \in ToolStatus, p \in Status : \E made \in Made(t, DomainNames) :
            LET gen == <<Aux(0), Aux(0), Tool(t), Aux(p)>>
                move == <<Aux(IF DomainLndName \in made THEN 0 ELSE 1),
                          Aux(MvStatus(made))>>
                fs == files \cup {Join(output_path, n) : n \in made}
            IN
            /\ dirs' = make_dir(output_path, dirs)
            /\ IF run_process_raises(ExitStatus(gen))
               THEN /\ cmds' = Append(cmds, Issued(step, gen))
                    /\ Raise(step, "CalledProcessError", next)
                    /\ UNCHANGED <<files, created_files_path_list, domain_file_path>>
               ELSE /\ cmds' = cmds \o <<Issued(step, gen), Issued(step, move)>>
                    /\ files' = fs
                    /\ IF run_process_raises(ExitStatus(move))
                       THEN /\ Raise(step, "CalledProcessError", next)
                            /\ UNCHANGED <<created_files_path_list, domain_file_path>>
                       ELSE /\ domain_file_path' = Join(output_path, DomainLndName)
                            /\ created_files_path_list' =
                                   AddEach(created_files_path_list,
                                           Glob(output_path, DomainNames, fs))
                            /\ Return(step, next, TRUE)
    /\ UNCHANGED <<linebuf, logged, archive, recipe_dict_list, machine, fs_at_start, has_created_files_path_list,
                   user_input_rmdir>>
    /\ UNCHANGED <<instruction_dict, prompts, scrip_map_file_path,
                   scrip_grid_file_path>>

(***************************************************************************)
(* The land stage                                                          *)
(***************************************************************************)
LandEntry(d, name) == GetIn(d, <<"nc_input_paths", "land", name>>)
AtmEntry(d, name) == GetIn(d, <<"nc_input_paths", "atmosphere", name>>)

\* A land stage that starts by forgetting the domain file.
create_land_forcing_resets ==
    /\ pc = "create_land_forcing"
    /\ calls' = Append(calls, "create_land_forcing")
    /\ pc' = "_create_surface"
    /\ domain_file_path' = None
    /\ UNCHANGED <<linebuf, logged, archive, recipe_dict_list, machine, fs_at_start,
                   has_created_files_path_list, user_input_rmdir>>
    /\ UNCHANGED <<instruction_dict, prompts, dirs, files, scrip_map_file_path,
                   scrip_grid_file_path, created_files_path_list, cmds,
                   returned, raised>>

\* create_land_forcing, lines 429-438.
create_land_forcing ==
    /\ pc = "create_land_forcing"
    /\ calls' = Append(calls, "create_land_forcing")
    /\ pc' = "_create_surface"
    /\ UNCHANGED <<linebuf, logged, archive, recipe_dict_list, machine, fs_at_start, has_created_files_path_list,
                   user_input_rmdir>>
    /\ UNCHANGED <<instruction_dict, prompts, dirs, files, scrip_map_file_path,
                   scrip_grid_file_path, domain_file_path,
                   created_files_path_list, cmds, returned, raised>>

SurfaceName == "surfdata_" \o site_code \o "_simyr2000.nc"

\* _create_surface, lines 588-633.  The command ends with "cd <code_dir>;".
_create_surface ==
    /\ pc = "_create_surface"
    /\ calls' = Append(calls, "_create_surface")
    /\ LET step == "_create_surface"
           output_path == OutPath(step)
       IN
       IF make_dir_raises(output_path, dirs)
       THEN /\ Raise(step, "FileExistsError", "_create_urban")
            /\ UNCHANGED <<dirs, files, cmds, created_files_path_list>>
       ELSE IF generate_load_module_str_raises(machine, "ncl")
       THEN /\ dirs' = make_dir(output_path, dirs)
            /\ Raise(step, "KeyError", "_create_urban")
            /\ UNCHANGED <<files, cmds, created_files_path_list>>
       ELSE \E t \in ToolStatus, p \in Status : \E made \in Made(t, <<SurfaceName>>) :
            LET parts == <<Aux(0), Aux(0), Aux(0), Aux(0), Tool(t),
                           Aux(MvStatus(made)), Aux(MvStatus(made)), Aux(p), Aux(0)>>
                fs == files \cup {Join(output_path, n) : n \in made}
            IN
            /\ dirs' = make_dir(output_path, dirs)
            /\ files' = fs
            /\ cmds' = Append(cmds, Issued(step, parts))
            /\ IF run_process_raises(ExitStatus(parts))
               THEN /\ Raise(step, "CalledProcessError", "_create_urban")
                    /\ UNCHANGED created_files_path_list
               ELSE /\ created_files_path_list' =
                           AddEach(created_files_path_list,
                                   Glob(output_path, <<SurfaceName>>, fs))
                    /\ Return(step, "_create_urban", FALSE)
    /\ UNCHANGED <<linebuf, logged, archive, recipe_dict_list, machine, fs_at_start, has_created_files_path_list,
                   user_input_rmdir>>
    /\ UNCHANGED <<instruction_dict, prompts, scrip_map_file_path,
                   scrip_grid_file_path, domain_file_path>>

\* The sub-steps that run one ncl script on one input file (_create_urban,
\* _create_fire, _create_topography, _create_atm_lightning,
\* _create_atm_aerosol): the directory is made when absent, the command is
\* "module purge; module load ncl; ncl ...; module purge;", and the path
\* registered is built from strings.  `item` is the recipe's entry.
NclStep(step, out_path, item, next, last) ==
    /\ pc = step
    /\ calls' = Append(calls, step)
    /\ dirs' = IF ~is_dir(out_path, dirs) THEN make_dir(out_path, dirs) ELSE dirs
    /\ IF generate_load_module_str_raises(machine, "ncl")
       THEN /\ Raise(step, "KeyError", next)
            /\ UNCHANGED <<files, cmds, created_files_path_list>>
       ELSE
       \E t \in ToolStatus, p \in Status :
        LET parts == <<Aux(0), Aux(0), Tool(t), Aux(p)>>
        IN
        /\ cmds' = Append(cmds, Issued(step, parts))
        /\ files' = IF t = 0 /\ item.kind # "none"
                    THEN files \cup {Join(out_path, NoSuffix(item.s) \o "_"
                                                    \o site_code \o ".nc")}
                    ELSE files
        /\ IF run_process_raises(ExitStatus(parts))
           THEN /\ Raise(step, "CalledProcessError", next)
                /\ UNCHANGED created_files_path_list
           ELSE IF item.kind = "none"
                THEN /\ Raise(step, "AttributeError", next)
                     /\ UNCHANGED created_files_path_list
                ELSE /\ created_files_path_list' =
                            _add_file_path_to_list(
                                created_files_path_list,
                                ConcatPath(out_path, NoSuffix(item.s)))
                     /\ Return(step, next, last)
    /\ UNCHANGED <<linebuf, logged, archive, recipe_dict_list, machine, fs_at_start, has_created_files_path_list,
                   user_input_rmdir>>
    /\ UNCHANGED <<instruction_dict, prompts, scrip_map_file_path,
                   scrip_grid_file_path, domain_file_path>>

\* _create_urban, lines 673-712.
_create_urban ==
    NclStep("_create_urban", OutPath("_create_urban"),
            LandEntry(instruction_dict, "urban"), "_add_snow_files", FALSE)

\* The non-null values of a dict, in order.
NonNull(d) == LET Given(v) == v.kind # "none" IN SelectSeq(d, Given)

\* _add_snow_files, lines 641-669: every file is registered while the command
\* is built; the one command is the chain of the cp, run when there is one.
_add_snow_files ==
    /\ pc = "_add_snow_files"
    /\ calls' = Append(calls, "_add_snow_files")
    /\ LET step == "_add_snow_files"
           out_path == OutPath(step)
           given == NonNull(LandEntry(instruction_dict, "snow").items)
           listed == AddEach(created_files_path_list,
                             [i \in 1..Len(given) |-> Join(out_path, given[i].s)])
       IN
       /\ dirs' = IF ~is_dir(out_path, dirs) THEN make_dir(out_path, dirs) ELSE dirs
       /\ created_files_path_list' = listed
       /\ IF given = <<>>
          THEN /\ Return(step, "_create_fire", FALSE)
               /\ UNCHANGED <<files, cmds>>
          ELSE \E st \in [1..Len(given) -> ToolStatus] :
               LET parts == [i \in 1..Len(given) |-> Tool(st[i])]
               IN
               /\ cmds' = Append(cmds, Issued(step, parts))
               /\ files' = files \cup {Join(out_path, given[i].s) :
                                         i \in {j \in 1..Len(given) : st[j] = 0}}
               /\ IF run_process_raises(ExitStatus(parts))
                  THEN Raise(step, "CalledProcessError", "_create_fire")
                  ELSE Return(step, "_create_fire", FALSE)
    /\ UNCHANGED <<linebuf, logged, archive, recipe_dict_list, machine, fs_at_start, has_created_files_path_list,
                   user_input_rmdir>>
    /\ UNCHANGED <<instruction_dict, prompts, scrip_map_file_path,
                   scrip_grid_file_path, domain_file_path>>

\* _create_fire, lines 745-786.
_create_fire ==
    NclStep("_create_fire", OutPath("_create_fire"),
            LandEntry(instruction_dict, "fire"), "_add_parameter_files", FALSE)

\* _add_parameter_files, lines 716-741: one cp command per file, each
\* registered after its command returned.  `k` is the first cp that fails,
\* 0 when none does.
_add_parameter_files ==
    /\ pc = "_add_parameter_files"
    /\ calls' = Append(calls, "_add_parameter_files")
    /\ LET step == "_add_parameter_files"
           next == StageAfter("create_land_forcing")
           out_path == OutPath(step)
           given == NonNull(LandEntry(instruction_dict, "parameter_files").items)
       IN
       /\ dirs' = IF ~is_dir(out_path, dirs) THEN make_dir(out_path, dirs) ELSE dirs
       /\ \E k \in (IF 1 \in ToolStatus THEN 0..Len(given) ELSE {0}) :
            LET n == IF k = 0 THEN Len(given) ELSE k - 1
            IN
            /\ cmds' = cmds
                       \o [i \in 1..n |-> Issued(step, <<Tool(0)>>)]
                       \o (IF k = 0 THEN <<>> ELSE <<Issued(step, <<Tool(1)>>)>>)
            /\ files' = files \cup {Join(out_path, given[i].s) : i \in 1..n}
            /\ created_files_path_list' =
                   AddEach(created_files_path_list,
                           [i \in 1..n |-> Join(out_path, given[i].s)])
            /\ IF k # 0 /\ run_process_raises(1)
               THEN Raise(step, "CalledProcessError", next)
               ELSE Return(step, next, TRUE)
    /\ UNCHANGED <<linebuf, logged, archive, recipe_dict_list, machine, fs_at_start, has_created_files_path_list,
                   user_input_rmdir>>
    /\ UNCHANGED <<instruction_dict, prompts, scrip_map_file_path,
                   scrip_grid_file_path, domain_file_path>>

(***************************************************************************)
(* The atmosphere stage                                                    *)
(***************************************************************************)
\* create_atm_forcing, lines 442-450.
create_atm_forcing ==
    /\ pc = "create_atm_forcing"
    /\ calls' = Append(calls, "create_atm_forcing")
    /\ pc' = "_create_climate"
    /\ UNCHANGED <<linebuf, logged, archive, recipe_dict_list, machine, fs_at_start, has_created_files_path_list,
                   user_input_rmdir>>
    /\ UNCHANGED <<instruction_dict, prompts, dirs, files, scrip_map_file_path,
                   scrip_grid_file_path, domain_file_path,
                   created_files_path_list, cmds, returned, raised>>

\* _create_climate, lines 794-840: the output directory itself is registered.
_create_climate ==
    /\ pc = "_create_climate"
    /\ calls' = Append(calls, "_create_climate")
    /\ LET step == "_create_climate"
           out_path == OutPath(step)
           gswp3 == GetIn(instruction_dict,
                          <<"nc_input_paths", "atmosphere", "climate", "GSWP3">>).items
       IN
       IF ~Truthy(Get(gswp3, "root_path"))
       THEN /\ Return(step, "_create_topography", FALSE)
            /\ UNCHANGED <<dirs, files, cmds, created_files_path_list>>
       ELSE /\ dirs' = IF ~is_dir(out_path, dirs)
                       THEN make_dir(out_path, dirs) ELSE dirs
            /\ UNCHANGED files
            /\ IF generate_load_module_str_raises(machine, "ncl")
               THEN /\ Raise(step, "KeyError", "_create_topography")
                    /\ UNCHANGED <<cmds, created_files_path_list>>
               ELSE
               \E t \in ToolStatus, p \in Status :
                LET parts == <<Aux(0), Aux(0), Tool(t), Aux(p)>>
                IN
                /\ cmds' = Append(cmds, Issued(step, parts))
                /\ IF run_process_raises(ExitStatus(parts))
                   THEN /\ Raise(step, "CalledProcessError", "_create_topography")
                        /\ UNCHANGED created_files_path_list
                   ELSE /\ created_files_path_list' =
                               _add_file_path_to_list(created_files_path_list,
                                                      out_path)
                        /\ Return(step, "_create_topography", FALSE)
    /\ UNCHANGED <<linebuf, logged, archive, recipe_dict_list, machine, fs_at_start, has_created_files_path_list,
                   user_input_rmdir>>
    /\ UNCHANGED <<instruction_dict, prompts, scrip_map_file_path,
                   scrip_grid_file_path, domain_file_path>>

\* _create_topography, lines 930-970.
_create_topography ==
    NclStep("_create_topography", OutPath("_create_topography"),
            AtmEntry(instruction_dict, "topography"), "_create_atm_lightning", FALSE)

\* _create_atm_lightning, lines 887-926.
_create_atm_lightning ==
    NclStep("_create_atm_lightning", OutPath("_create_atm_lightning"),
            AtmEntry(instruction_dict, "lightning"), "_create_atm_aerosol", FALSE)

\* _create_atm_aerosol, lines 844-883.
_create_atm_aerosol ==
    NclStep("_create_atm_aerosol", OutPath("_create_atm_aerosol"),
            AtmEntry(instruction_dict, "aerosol_deposition"),
            StageAfter("create_atm_forcing"), TRUE)

(***************************************************************************)
(* Packaging                                                               *)
(***************************************************************************)
\* The files mksurfdata.pl writes next to the surface file, which
\* "mv surfdata*<site>* <output_path>/" (line 630) moves with it.
SurfaceLogStemOf(site) ==
    "surfdata_1x1_" \o site \o "_hist_16pfts_Irrig_CMIP6_simyr2000_c"
    \o ctsm_date
SurfaceLogStem == SurfaceLogStemOf(site_code)
SurfaceLogName == SurfaceLogStem \o ".log"
SurfaceNamelistName == SurfaceLogStem \o ".namelist"

\* The --exclude patterns of the rsync command, lines 988-990, each a
\* sequence of path parts and each part a sequence of pieces, "*" standing
\* for any run of characters.
ExcludePatterns ==
    {<< <<"share">>, <<"scripgrids">> >>,
     << <<"lnd">>, <<"clm2">>, <<"mappingdata">> >>,
     << <<"inputdata">> >>,
     << <<"*", ".log">> >>,
     << <<"*", ".namelist">> >>,
     << <<"*", ".ocn.", "*">> >>}

\* The runs of characters a "*" is tried with: the pieces of the file
\* names of the output directory around ".log", ".namelist" and ".ocn.".
Stars ==
    {"", "domain"}
    \cup {SurfaceLogStemOf(site) : site \in Sites}
    \cup {site \o "_" \o site \o "." \o ctsm_date \o ".nc" : site \in Sites}

\* The names a pattern part stands for.
RECURSIVE Expand(_)
Expand(pieces) ==
    IF pieces = <<>> THEN {""}
    ELSE LET heads == IF Head(pieces) = "*" THEN Stars ELSE {Head(pieces)}
         IN  {h \o t : h \in heads, t \in Expand(Tail(pieces))}

\* The names each part of the patterns stands for.
Expansions ==
    [part \in UNION {{pattern[i] : i \in 1..Len(pattern)} :
                         pattern \in ExcludePatterns} |-> Expand(part)]

\* rsync matches a pattern that does not start with "/" against the end of
\* a path, part by part.
MatchesEnd(path, pattern) ==
    /\ Len(pattern) <= Len(path)
    /\ \A i \in 1..Len(pattern) :
           path[Len(path) - Len(pattern) + i] \in Expansions[pattern[i]]

\* rsync leaves out a file when the file or a directory above it matches
\* one of the patterns; `rel` is the path below the source directory.
Excluded(rel, patterns) ==
    \E k \in 1..Len(rel) :
        \E pattern \in patterns : MatchesEnd(SubSeq(rel, 1, k), pattern)

\* The files below the output directory, as paths relative to it.
RelFiles(fs) ==
    {SubSeq(f, Len(output_dir) + 1, Len(f)) :
         f \in {g \in fs : IsUnder(g, output_dir) /\ g # output_dir}}

\* An rsync that leaves out nothing.
StagedAll(fs) == RelFiles(fs)

\* "rsync -av --progress . ./inputdata --exclude ...": the files it copies
\* into the staging directory when it runs to its end.
Staged(fs) == {rel \in RelFiles(fs) : ~Excluded(rel, ExcludePatterns)}

\* What rsync has copied of `staged` when it ends with status t: all when 0,
\* and otherwise all but one file, or nothing.
Copied(t, staged) ==
    IF t = 0 THEN {staged}
    ELSE {{}} \cup {staged \ {rel} : rel \in staged}

TarName == "inputdata_version" \o version \o "_" \o site_code \o ".tar"

\* tar_output, lines 975-998: "cd <output_dir>; rsync ...; tar ...; mv ...;
\* rm -r inputdata; cd <code_dir>;".
tar_output ==
    /\ pc = "tar_output"
    /\ calls' = Append(calls, "tar_output")
    /\ LET step == "tar_output"
           staging == OutPath(step)
           staged == Staged(files)
       IN
       IF make_dir_raises(staging, dirs)
       THEN /\ Raise(step, "FileExistsError", StageAfter(step))
            /\ UNCHANGED <<dirs, files, cmds, archive>>
       ELSE \E rsync \in ToolStatus, tar \in ToolStatus :
            \E copied \in Copied(rsync, staged) :
            LET mv == IF tar = 0 THEN 0 ELSE 1
                parts == <<Aux(0), Tool(rsync), Tool(tar), Aux(mv), Aux(0), Aux(0)>>
            IN
            /\ dirs' = rm_rf(staging, make_dir(staging, dirs))
            /\ files' = IF tar = 0
                        THEN files \cup {Join(tar_output_dir, TarName)}
                        ELSE files
            /\ archive' = IF tar = 0 THEN Archive(copied) ELSE archive
            /\ cmds' = Append(cmds, Issued(step, parts))
            /\ IF run_process_raises(ExitStatus(parts))
               THEN Raise(step, "CalledProcessError", StageAfter(step))
               ELSE Return(step, StageAfter(step), FALSE)
    /\ UNCHANGED <<linebuf, logged, recipe_dict_list, machine, fs_at_start, has_created_files_path_list,
                   user_input_rmdir>>
    /\ UNCHANGED <<instruction_dict, prompts, scrip_map_file_path,
                   scrip_grid_file_path, domain_file_path,
                   created_files_path_list>>

(***************************************************************************)
(* The run                                                                 *)
(***************************************************************************)
Next ==
    \/ main
    \/ LocalOutputDir
    \/ PromptLocal
    \/ TarOutputDir
    \/ PromptTar
    \/ InputChecks
    \/ create_share_forcing
    \/ _create_scrip
    \/ _create_mapping
    \/ _create_domain
    \/ create_land_forcing
    \/ _create_surface
    \/ _create_urban
    \/ _add_snow_files
    \/ _create_fire
    \/ _add_parameter_files
    \/ create_atm_forcing
    \/ _create_climate
    \/ _create_topography
    \/ _create_atm_lightning
    \/ _create_atm_aerosol
    \/ tar_output

Spec == Init /\ [][Next]_vars

(***************************************************************************)
(* make_dir on its own                                                     *)
(***************************************************************************)
DirNames == {"a", "b"}

\* The paths of at most n parts.
PathsUpTo(n) == UNION {[1..k -> DirNames] : k \in 1..n}

\* A caller hands make_dir one path after another, as long as it returns;
\* at the start nothing exists, or one directory and its parents.  `calls`
\* keeps, for each call, the path, the directories before and after it and
\* how it ended.
InitMakeDir ==
    /\ instruction_dict = Recipe("nowhere", "new", "new")
    /\ pc = "make_dir"
    /\ prompts = 0
    /\ dirs \in {{}} \cup {Prefixes(p) : p \in PathsUpTo(MaxDepth)}
    /\ files = {}
    /\ scrip_map_file_path = None
    /\ scrip_grid_file_path = None
    /\ domain_file_path = None
    /\ created_files_path_list = <<>>
    /\ cmds = <<>>
    /\ calls = <<>>
    /\ returned = {}
    /\ raised = NoExc
    /\ machine = NoMachine
    /\ user_input_rmdir = ""
    /\ has_created_files_path_list = FALSE
    /\ fs_at_start = [dirs |-> dirs, files |-> files]
    /\ archive = NoArchive
    /\ linebuf = <<>>
    /\ logged = <<>>
    /\ recipe_dict_list = <<>>

\* make_dir(path), lines 321-332.
make_dir_call ==
    /\ pc = "make_dir"
    /\ Len(calls) < MaxCalls
    /\ \E path \in PathsUpTo(MaxDepth) :
        IF make_dir_raises(path, dirs)
        THEN /\ calls' = Append(calls, [path |-> path, before |-> dirs,
                                        after |-> dirs,
                                        result |-> "FileExistsError"])
             /\ raised' = Exc("FileExistsError", "make_dir")
             /\ pc' = Propagate("make_dir")
             /\ UNCHANGED dirs
        ELSE /\ calls' = Append(calls, [path |-> path, before |-> dirs,
                                        after |-> make_dir(path, dirs),
                                        result |-> "True"])
             /\ dirs' = make_dir(path, dirs)
             /\ UNCHANGED <<pc, raised>>
    /\ UNCHANGED <<linebuf, logged, archive, recipe_dict_list, machine, fs_at_start, has_created_files_path_list,
                   user_input_rmdir>>
    /\ UNCHANGED <<instruction_dict, prompts, files, scrip_map_file_path,
                   scrip_grid_file_path, domain_file_path,
                   created_files_path_list, cmds, returned>>

SpecMakeDir == InitMakeDir /\ [][make_dir_call]_vars

(***************************************************************************)
(* Properties                                                              *)
(***************************************************************************)
ShareSteps == {"_create_scrip", "_create_mapping", "_create_domain"}
LandSteps == {"_create_surface", "_create_urban", "_add_snow_files",
              "_create_fire", "_add_parameter_files"}
AtmSteps == {"_create_climate", "_create_topography", "_create_atm_lightning",
             "_create_atm_aerosol"}
Stages == {"create_share_forcing", "create_land_forcing", "create_atm_forcing"}

Called(step) == \E i \in 1..Len(calls) : calls[i] = step

\* A required field is null somewhere in the mapping, at any depth.
RECURSIVE HasNullRequired(_)
HasNullRequired(d) ==
    \E i \in 1..Len(d) :
        IF d[i].kind = "dict" THEN HasNullRequired(d[i].items)
        ELSE d[i].kind = "none" /\ d[i].key \in minimum_required

\* C1: a recipe with a null required field, at the top level or in any nested
\* mapping, makes ceck_minimum_required return False.
C1_NullRequiredRejected ==
    HasNullRequired(instruction_dict) => ~ceck_minimum_required(instruction_dict)

\* C2: when the run ends because the recipe failed validation, run_process
\* has executed no command, construction included, and no stage was started.
C2_NoCommandBeforeValidationFailure ==
    raised = Exc("SystemExit", "ceck_minimum_required")
        => cmds = <<>> /\ calls = <<>>

\* C3: while a land or atmosphere sub-step executes, and ever after,
\* domain_file_path is set: to the file of a _create_domain that returned
\* when the recipe asks for a new domain, to the recipe's path otherwise.
C3_DomainPathSetForLandAtm ==
    (pc \in LandSteps \cup AtmSteps
     \/ \E s \in LandSteps \cup AtmSteps : Called(s))
        => /\ domain_file_path # None
           /\ IF DomainNew(instruction_dict)
              THEN /\ "_create_domain" \in returned
                   /\ domain_file_path =
                          output_dir \o <<"share", "domains", site_code, DomainLndName>>
              ELSE domain_file_path =
                       <<Get(ShareEntry(instruction_dict, "domain"), "path").s>>

\* A land and an atmosphere sub-step ran on a domain file made in the run,
\* the SCRIP files being pre-supplied.
C3_Witness ==
    /\ Called("_create_urban")
    /\ Called("_create_atm_aerosol")
    /\ DomainNew(instruction_dict)
    /\ ~ScripNew(instruction_dict)
    /\ domain_file_path # None

\* C4: _create_mapping is entered with scrip_grid_file_path set, and
\* _create_domain with scrip_map_file_path set, by a _create_scrip that
\* returned or from the recipe.
C4_ConsumedPathsSet ==
    /\ (pc = "_create_mapping" \/ Called("_create_mapping"))
           => scrip_grid_file_path # None /\ "_create_scrip" \in returned
    /\ (pc = "_create_domain" \/ Called("_create_domain"))
           => /\ scrip_map_file_path # None
              /\ IF ScripNew(instruction_dict)
                 THEN "_create_scrip" \in returned
                 ELSE scrip_map_file_path =
                          <<Get(ShareEntry(instruction_dict, "SCRIP"), "map_path").s>>

\* The domain step is about to run after the SCRIP and mapping steps of the
\* same run.
C4_Witness ==
    /\ pc = "_create_domain"
    /\ Called("_create_mapping")
    /\ scrip_map_file_path # None
    /\ scrip_grid_file_path # None

\* C5: once a tool of a sub-step's command has failed, no command of a later
\* sub-step is issued and packaging does not happen.
C5_ToolFailureAborts ==
    \A i \in 1..Len(cmds) :
        (cmds[i].step \in ShareSteps \cup LandSteps \cup AtmSteps
         /\ ~cmds[i].tools_ok)
            => /\ \A j \in i..Len(cmds) : cmds[j].step = cmds[i].step
               /\ ~Called("tar_output")
               /\ pc # "tar_output"

\* C6: a command whose shell exits nonzero makes run_process raise
\* CalledProcessError: it is the last command of the run, its step does not
\* return and the run has ended; every step that went on had exit status 0.
C6_NonzeroExitRaises ==
    \A i \in 1..Len(cmds) :
        cmds[i].status # 0
            => /\ i = Len(cmds)
               /\ raised = Exc("CalledProcessError", cmds[i].step)
               /\ cmds[i].step \notin returned
               /\ pc = "error"

\* A sub-step's command exited nonzero after earlier commands had run.
C6_Witness ==
    /\ Len(cmds) > 1
    /\ cmds[Len(cmds)].status # 0
    /\ cmds[Len(cmds)].step = "_create_urban"
    /\ raised.exc = "CalledProcessError"

\* C7: after the tool of the domain step has exited nonzero, no land or
\* atmosphere command is issued, tar_output is not called, and the artifact
\* list holds only what the SCRIP and mapping steps registered.
C7_DomainFailureAborts ==
    (\E i \in 1..Len(cmds) : cmds[i].step = "_create_domain" /\ ~cmds[i].tools_ok)
        => /\ \A i \in 1..Len(cmds) : cmds[i].step \notin LandSteps \cup AtmSteps
           /\ ~Called("tar_output")
           /\ \A i \in 1..Len(created_files_path_list) :
                  \/ IsUnder(created_files_path_list[i],
                             output_dir \o <<"share", "scripgrids">>)
                  \/ IsUnder(created_files_path_list[i],
                             output_dir \o <<"lnd", "clm2", "mappingdata">>)

\* C8: tar_output is entered only after the three stages have returned and
\* nothing was raised.
C8_PackagingAfterAllStages ==
    /\ pc = "tar_output" => Stages \subseteq returned /\ raised = NoExc
    /\ Called("tar_output")
           => /\ Stages \subseteq returned
              /\ raised # NoExc => raised.at = "tar_output"

\* Packaging was entered in a run that made the shared files anew.
C8_Witness ==
    /\ Called("tar_output")
    /\ "_create_domain" \in returned
    /\ "_create_atm_aerosol" \in returned

\* The place of a sub-step in the order of the stages.
Rank(step) ==
    CASE step = "_create_scrip" -> 1
      [] step = "_create_mapping" -> 2
      [] step = "_create_domain" -> 3
      [] step \in LandSteps -> 4
      [] step \in AtmSteps -> 5
      [] step = "tar_output" -> 6
      [] OTHER -> 0

\* C9: the sub-steps start in the order SCRIP grid, mapping, domain, land,
\* atmosphere, packaging, each after every earlier sub-step has returned.
C9_StagesInOrder ==
    \A j \in 1..Len(calls) : \A i \in 1..(j - 1) :
        (Rank(calls[i]) > 0 /\ Rank(calls[j]) > 0)
            => /\ Rank(calls[i]) <= Rank(calls[j])
               /\ calls[i] # calls[j]
               /\ calls[i] \in returned

\* A run went through all of the stages into packaging.
C9_Witness ==
    /\ Called("_create_scrip")
    /\ Called("_create_domain")
    /\ Called("_create_fire")
    /\ Called("_create_topography")
    /\ Called("tar_output")

\* Every shared component of the recipe is pre-supplied, with a path.
AllShareGiven(d) ==
    /\ ~ScripNew(d)
    /\ ~DomainNew(d)
    /\ Get(ShareEntry(d, "SCRIP"), "path").kind # "none"
    /\ Get(ShareEntry(d, "domain"), "path").kind # "none"

\* C10: with every shared component pre-supplied, the shared stage runs no
\* command and no sub-step, and from the end of construction on the Stage
\* Context holds the recipe's paths.
C10_PreSuppliedShareRunsNothing ==
    AllShareGiven(instruction_dict)
        => /\ \A i \in 1..Len(cmds) : cmds[i].step \notin ShareSteps
           /\ \A s \in ShareSteps : ~Called(s)
           /\ "__init__" \in returned
                  => /\ scrip_map_file_path =
                            <<Get(ShareEntry(instruction_dict, "SCRIP"), "map_path").s>>
                     /\ scrip_grid_file_path =
                            <<Get(ShareEntry(instruction_dict, "SCRIP"), "grid_path").s>>
                     /\ domain_file_path =
                            <<Get(ShareEntry(instruction_dict, "domain"), "path").s>>

\* create_share_forcing returned for a recipe with everything pre-supplied.
C10_Witness ==
    /\ AllShareGiven(instruction_dict)
    /\ "create_share_forcing" \in returned
    /\ Called("_create_surface")

\* C11: the process ends with a nonzero exit status when the run was ended
\* by sys.exit() (the recipe failed validation, no recipe could be read, the
\* operator answered 'a' to a conflict prompt), and a run that has ended has
\* exit status 0 only when the whole pipeline ran.
C11_EarlyTerminationNonzero ==
    /\ raised.exc = "SystemExit" => ExitStatusOf(raised.exc) # 0
    /\ pc \in {"exit", "error", "done"} /\ ExitStatusOf(raised.exc) = 0
           => pc = "done"

\* C12: when the operator aborted at a conflict prompt, on the local output
\* directory or on the tar output directory, the directories and files are
\* those of the start of the run and created_files_path_list was never
\* instantiated.
C12_AbortLeavesNoTrace ==
    raised.exc = "SystemExit" /\ raised.at \in {"prompt_local", "prompt_tar"}
        => /\ dirs = fs_at_start.dirs
           /\ files = fs_at_start.files
           /\ ~has_created_files_path_list

\* The directory a conflict prompt is about, and where construction goes on
\* after it.
PromptPath(here) == IF here = "prompt_local" THEN output_dir ELSE tar_output_dir
PromptNext(here) == IF here = "prompt_local" THEN "tar_output_dir" ELSE "input_checks"

\* `path` is a directory with nothing in it.
IsEmptyDir(path, ds, fs) ==
    /\ path \in ds
    /\ \A q \in ds \cup fs : IsUnder(q, path) => q = path

\* What one step of construction does about an existing directory, `yes`
\* and `no` being the answers that delete and that abort: the check of an
\* existing directory leads to its prompt; the prompt is left for the next
\* statement only by an answer of `yes`, with the directory deleted and made
\* anew, empty; an answer of `no` ends the run; any other answer changes
\* nothing and the prompt is repeated.
ConflictStep(yes, no) ==
    /\ pc = "local_output_dir" /\ output_dir \in dirs => pc' = "prompt_local"
    /\ pc = "tar_output_dir" /\ tar_output_dir \in dirs => pc' = "prompt_tar"
    /\ pc \in {"prompt_local", "prompt_tar"} =>
         /\ pc' = PromptNext(pc) =>
                /\ user_input_rmdir' \in yes
                /\ IsEmptyDir(PromptPath(pc), dirs', files')
         /\ user_input_rmdir' \in no => pc' = "exit"
         /\ user_input_rmdir' \notin yes \cup no =>
                pc' = pc /\ dirs' = dirs /\ files' = files

\* C13 as stated: an existing output directory is passed only after the
\* operator entered 'd', the run ends on 'a', and every other input leaves
\* the directory untouched and repeats the prompt.
C13_OnlyLowercaseAnswers == [][ConflictStep({"d"}, {"a"})]_vars

\* C13, amended: the answer is compared in lower case, so 'D' deletes as 'd'
\* does and 'A' aborts as 'a' does; an existing output directory is passed
\* only after such a 'd', deleted and made anew, and every input other than
\* these four changes nothing and repeats the prompt.
C13_ConflictNeedsOperator == [][ConflictStep({"d", "D"}, {"a", "A"})]_vars

\* The tar output directory existed, and construction went on after 'D'.
C13_Witness ==
    /\ pc = "input_checks"
    /\ user_input_rmdir = "D"
    /\ tar_output_dir \in fs_at_start.dirs
    /\ IsEmptyDir(tar_output_dir, dirs, files)

\* C14: make_dir on a path that does not exist creates it and its missing
\* parents, nothing else, and returns True; on a path that exists it raises;
\* so of two calls on the same path that did not exist at first, the first
\* returns True and the second raises.
C14_MakeDirOnceOnly ==
    /\ \A i \in 1..Len(calls) :
         LET c == calls[i]
         IN  IF c.path \notin c.before
             THEN /\ c.result = "True"
                  /\ \A n \in 1..Len(c.path) : SubSeq(c.path, 1, n) \in c.after
                  /\ c.before \subseteq c.after
                  /\ \A q \in c.after \ c.before : IsUnder(c.path, q)
             ELSE /\ c.result = "FileExistsError"
                  /\ c.after = c.before
                  /\ i = Len(calls)
                  /\ raised = Exc("FileExistsError", "make_dir")
    /\ \A i \in 1..Len(calls), j \in 1..Len(calls) :
         i < j /\ calls[i].path = calls[j].path
             => calls[j].result = "FileExistsError"

\* Two calls on a path of two parts, neither of which existed.
C14_Witness ==
    /\ Len(calls) = 2
    /\ calls[1].path = calls[2].path
    /\ Len(calls[1].path) = 2
    /\ calls[1].before = {}
    /\ calls[1].result = "True"
    /\ calls[2].result = "FileExistsError"

(***************************************************************************)
(* The pipeline on a filesystem that another process writes to             *)
(***************************************************************************)
\* Another process makes the directory that the step about to run makes
\* for its output.
mkdir ==
    /\ pc \in ShareSteps \cup LandSteps \cup AtmSteps \cup {"tar_output"}
    /\ OutPath(pc) \notin dirs
    /\ dirs' = dirs \cup Prefixes(OutPath(pc))
    /\ UNCHANGED <<linebuf, logged, archive, recipe_dict_list, machine, fs_at_start, has_created_files_path_list,
                   user_input_rmdir>>
    /\ UNCHANGED <<instruction_dict, pc, prompts, files, scrip_map_file_path,
                   scrip_grid_file_path, domain_file_path,
                   created_files_path_list, cmds, calls, returned, raised>>

SpecShared == Init /\ [][Next \/ mkdir]_vars

\* The step makes a directory for its output (_create_climate does so only
\* for a recipe that names the GSWP3 data).
NeedsOutPath(step) ==
    step = "_create_climate" =>
        Truthy(GetIn(instruction_dict, <<"nc_input_paths", "atmosphere",
                                         "climate", "GSWP3", "root_path">>))

\* A step taken by a sub-step whose output directory is already there
\* raises FileExistsError, runs no command and writes no file.
ExistingTargetStep ==
    pc \in ShareSteps \cup LandSteps \cup AtmSteps
    /\ NeedsOutPath(pc) /\ OutPath(pc) \in dirs /\ pc' # pc
        => /\ raised'.exc = "FileExistsError"
           /\ cmds' = cmds
           /\ files' = files

\* C15: every sub-step that finds the directory for its output already
\* there treats it as a conflict: it raises, and writes nothing into it.
C15_ExistingTargetIsConflict == [][ExistingTargetStep]_vars

\* C16: when the run is ended by the KeyError of an unknown machine name or
\* of a tool category the machine has no module for, no command has been
\* executed before.
C16_MachineErrorBeforeCommands ==
    raised.exc = "KeyError" => cmds = <<>>

IsPrefix(s, t) == Len(s) <= Len(t) /\ SubSeq(t, 1, Len(s)) = s

\* C17: created_files_path_list only grows at its end: the list before any
\* step is a prefix of the list after it, so the list of an earlier state is
\* a prefix of the list of every later state.
C17_ArtifactListAppendOnly ==
    [][IsPrefix(created_files_path_list, created_files_path_list')]_vars

\* A whole run, with the files of the shared, land and atmosphere stages
\* registered in this order.
C17_Witness ==
    /\ pc = "done"
    /\ Len(created_files_path_list) >= 6
    /\ created_files_path_list[1] = Join(OutPath("_create_scrip"), ScripGridName)
    /\ created_files_path_list[Len(created_files_path_list)]
           = ConcatPath(OutPath("_create_atm_aerosol"), "aerdep")

\* The path is a directory or a file of the filesystem.
Exists(path) == path \in dirs \cup files

Missing == {i \in 1..Len(created_files_path_list) :
                ~Exists(created_files_path_list[i])}

\* C18: when tar_output runs with a registered path that does not exist, it
\* ends with an error: it does not return.
C18_MissingArtifactFailsPackaging ==
    Called("tar_output") /\ Missing # {}
        => "tar_output" \notin returned /\ raised.at = "tar_output"

\* C19: after a run in which every stage and the packaging returned, and
\* every tool of every command succeeded, each registered path exists.
C19_RegisteredPathsExist ==
    pc = "done" /\ (\A i \in 1..Len(cmds) : cmds[i].tools_ok)
        => Missing = {}

\* Every leaf of the mapping is null.
RECURSIVE AllNull(_)
AllNull(d) ==
    \A i \in 1..Len(d) :
        IF d[i].kind = "dict" THEN AllNull(d[i].items) ELSE d[i].kind = "none"

\* The recipe asks for new shared-grid files and names no land and no
\* atmosphere input.
ShareOnly(d) ==
    /\ ScripNew(d)
    /\ AllNull(GetIn(d, <<"nc_input_paths", "land">>).items)
    /\ AllNull(GetIn(d, <<"nc_input_paths", "atmosphere">>).items)

\* C20: for such a recipe only the sub-steps of the shared stage run: no
\* land or atmosphere sub-step issues a command or ends the run, and every
\* registered path is a file of the shared-grid, mapping or domain
\* directories.
C20_ShareOnlyRecipe ==
    ShareOnly(instruction_dict)
        => /\ \A i \in 1..Len(cmds) : cmds[i].step \notin LandSteps \cup AtmSteps
           /\ raised.at \notin LandSteps \cup AtmSteps
           /\ \A i \in 1..Len(created_files_path_list) :
                  \E st \in ShareSteps :
                      IsUnder(created_files_path_list[i], OutPath(st))

\* C21: once tar_output has returned, the staging directory inputdata is
\* gone from the output directory and the tar output directory holds one
\* file, the archive inputdata_version<version>_<site_code>.tar, whatever
\* rsync, tar and mv ended with.
C21_ArchiveAfterPackaging ==
    "tar_output" \in returned
        => /\ OutPath("tar_output") \notin dirs
           /\ {f \in files : IsUnder(f, tar_output_dir)}
                  = {Join(tar_output_dir, TarName)}

(***************************************************************************)
(* Packaging on its own: tar_output on any set of files the sub-steps can  *)
(* have left below the output directory                                    *)
(***************************************************************************)
\* Files of every kind the sub-steps write below the output directory.
OutputFiles ==
    {Join(OutPath("_create_scrip"), ScripGridName),
     Join(OutPath("_create_mapping"), MappingName),
     Join(OutPath("_create_domain"), DomainLndName),
     Join(OutPath("_create_domain"), DomainOcnName),
     Join(OutPath("_create_surface"), SurfaceName),
     Join(OutPath("_create_surface"), SurfaceLogName),
     Join(OutPath("_create_surface"), SurfaceNamelistName),
     ConcatPath(OutPath("_create_topography"), "topo")}

\* The directory a file is in.
Parent(path) == SubSeq(path, 1, Len(path) - 1)

InitPack ==
    /\ instruction_dict = Recipe("nowhere", "new", "new")
    /\ pc = "tar_output"
    /\ prompts = 0
    /\ files \in SUBSET OutputFiles
    /\ dirs = Prefixes(output_dir) \cup Prefixes(tar_output_dir)
              \cup UNION {Prefixes(Parent(f)) : f \in files}
    /\ scrip_map_file_path = None
    /\ scrip_grid_file_path = None
    /\ domain_file_path = None
    /\ created_files_path_list = <<>>
    /\ cmds = <<>>
    /\ calls = <<>>
    /\ returned = {}
    /\ raised = NoExc
    /\ machine = Machine("saga")
    /\ user_input_rmdir = ""
    /\ has_created_files_path_list = TRUE
    /\ fs_at_start = [dirs |-> dirs, files |-> files]
    /\ archive = NoArchive
    /\ linebuf = <<>>
    /\ logged = <<>>
    /\ recipe_dict_list = <<>>

SpecPack == InitPack /\ [][tar_output]_vars

\* The files the output directory held when packaging started.
AtPackaging == RelFiles(fs_at_start.files)

\* rsync, tar and mv of tar_output all ended with status 0.
Packaged ==
    /\ "tar_output" \in returned
    /\ cmds[Len(cmds)].tools_ok

IsGridOrMapping(rel) ==
    \/ SubSeq(rel, 1, 2) = <<"share", "scripgrids">>
    \/ SubSeq(rel, 1, 3) = <<"lnd", "clm2", "mappingdata">>

IsLog(rel) == rel[Len(rel)] = SurfaceLogName

MarkedNew(name) ==
    Truthy(Get(ShareEntry(instruction_dict, name), "create_new"))

Supplied(name, key) == Get(ShareEntry(instruction_dict, name), key)

\* The SCRIP entry is marked as pre-existing and gives one of the grid file
\* and the map file, not both.
OneSupplied ==
    /\ ~MarkedNew("SCRIP")
    /\ Supplied("SCRIP", "path").kind # "none"
    /\ (Supplied("SCRIP", "grid_path").kind = "none")
           # (Supplied("SCRIP", "map_path").kind = "none")

DirectoryCheckStep ==
    /\ pc' = "local_output_dir" => pc \in {"main", "local_output_dir"}
    /\ pc' = "tar_output_dir" =>
           pc \in {"local_output_dir", "prompt_local", "tar_output_dir"}
    /\ pc' = "input_checks" =>
           pc \in {"tar_output_dir", "prompt_tar", "input_checks"}
    /\ pc = "local_output_dir" /\ pc' # pc =>
           IF output_dir \in dirs
           THEN pc' = "prompt_local" /\ dirs' = dirs
           ELSE pc' = "tar_output_dir" /\ output_dir \in dirs'
    /\ pc = "tar_output_dir" /\ pc' # pc =>
           IF tar_output_dir \in dirs
           THEN pc' = "prompt_tar" /\ dirs' = dirs
           ELSE pc' = "input_checks" /\ tar_output_dir \in dirs'
    /\ pc = "prompt_local" => pc' \in {"prompt_local", "tar_output_dir", "exit", "error"}
    /\ pc = "prompt_tar" => pc' \in {"prompt_tar", "input_checks", "exit", "error"}

\* C25: the construction checks each output root once, the local output
\* directory first and the tar output directory after it, and whatever the
\* first check found (no directory, or one that was deleted and made anew)
\* the second check is made.
C25_EachRootCheckedOnce == [][DirectoryCheckStep]_vars

\* The local output directory existed and was deleted, and the tar output
\* directory, which exists too, has been checked.
C25_Witness ==
    /\ pc = "prompt_tar"
    /\ \E i \in 1..Len(cmds) : cmds[i].step = "prompt_local"

\* The names the ncl sub-steps build their registered paths from.
NclStems == {"urban", "popden", "topo", "lis", "aerdep"}

\* `path` is one that `step` registers: a file of its output directory, or
\* the path an ncl sub-step builds by concatenation.
Registers(step, path) ==
    \/ IsUnder(path, OutPath(step))
    \/ \E stem \in NclStems : path = ConcatPath(OutPath(step), stem)

\* C26: a path is on the artifact list only after a command of the sub-step
\* that produces it has completed successfully (run_process saw exit
\* status 0), in every sub-step.
C26_RegisteredAfterCommand ==
    \A i \in 1..Len(created_files_path_list) :
        \E j \in 1..Len(cmds) :
            /\ cmds[j].status = 0
            /\ cmds[j].step \in ShareSteps \cup LandSteps \cup AtmSteps
            /\ Registers(cmds[j].step, created_files_path_list[i])

\* C27: when _create_surface runs, the mapping directory it hands to the
\* surface tool exists and _create_mapping has made it and returned, earlier
\* in the same run, whatever the recipe says about its SCRIP component.
C27_MappingBeforeSurface ==
    Called("_create_surface")
        => /\ "_create_mapping" \in returned
           /\ OutPath("_create_mapping") \in dirs

\* A step of the land stage, of the atmosphere stage or of the packaging
\* leaves the three paths of the Stage Context as they are.
ContextKeptStep ==
    pc \in LandSteps \cup AtmSteps
           \cup {"create_land_forcing", "create_atm_forcing", "tar_output"}
        => UNCHANGED <<scrip_map_file_path, scrip_grid_file_path,
                       domain_file_path>>

\* C28: the land stage, the atmosphere stage and the packaging read the
\* Stage Context and never write it.
C28_LaterStagesKeepContext == [][ContextKeptStep]_vars

\* A run that went through the land stage, the atmosphere stage and the
\* packaging with a domain file in the Stage Context.
C28_Witness ==
    /\ {"create_land_forcing", "create_atm_forcing", "tar_output"}
           \subseteq returned
    /\ domain_file_path # None

(***************************************************************************)
(* Runs of recipes whose tar output directory is apart from the local      *)
(* output directory, or inside it                                          *)
(***************************************************************************)
TarRoots == {"tar", NestedTarRoot}

InitRoots ==
    /\ \E tar_root \in TarRoots, scrip \in {"new", "given"} :
           instruction_dict = SiteRecipe("ALP1", tar_root, "nowhere", scrip, "new")
    /\ pc = "main"
    /\ prompts = 0
    /\ \E local \in BOOLEAN, tar \in BOOLEAN :
           /\ dirs = (IF local THEN Prefixes(Join(output_dir, "share")) ELSE {})
                     \cup (IF tar THEN Prefixes(tar_output_dir) ELSE {})
           /\ files = (IF local THEN {Join(output_dir, "old.nc")} ELSE {})
    /\ scrip_map_file_path = None
    /\ scrip_grid_file_path = None
    /\ domain_file_path = None
    /\ created_files_path_list = <<>>
    /\ cmds = <<>>
    /\ calls = <<>>
    /\ returned = {}
    /\ raised = NoExc
    /\ machine = NoMachine
    /\ user_input_rmdir = ""
    /\ has_created_files_path_list = FALSE
    /\ fs_at_start = [dirs |-> dirs, files |-> files]
    /\ archive = NoArchive
    /\ linebuf = <<>>
    /\ logged = <<>>
    /\ recipe_dict_list = <<>>

SpecRoots == InitRoots /\ [][Next]_vars

\* The steps that call make_dir without testing is_dir() first.
UnconditionalSteps ==
    {"_create_scrip", "_create_mapping", "_create_domain", "_create_surface",
     "tar_output"}

\* The construction has returned and no make_dir of a step has found its
\* directory existing.
NoStepHitsExisting ==
    "__init__" \in returned => raised.exc # "FileExistsError"

\* C30: after a construction that completed, no make_dir of a sub-step or
\* of tar_output hits an existing directory, whatever the recipe.
C30_NoExistingTarget == NoStepHitsExisting

\* C30, amended: when the tar output directory is not inside the local
\* output directory, no make_dir of a sub-step or of tar_output hits an
\* existing directory after a construction that completed: the targets of
\* the unconditional make_dir calls are apart from each other, none is a
\* parent of another, and each of these steps is called once at most.
C30_NoExistingTargetApart ==
    /\ ~IsUnder(tar_output_dir, output_dir) => NoStepHitsExisting
    /\ \A s, t \in UnconditionalSteps :
           s # t => ~IsUnder(OutPath(s), OutPath(t))
    /\ \A s \in UnconditionalSteps :
           Cardinality({i \in 1..Len(calls) : calls[i] = s}) <= 1

\* A run with its two roots apart made all five directories and ended.
C30_Witness ==
    /\ ~IsUnder(tar_output_dir, output_dir)
    /\ pc = "done"
    /\ \A s \in UnconditionalSteps : Called(s) /\ s \in returned

(***************************************************************************)
(* main()'s loop over several recipes                                      *)
(***************************************************************************)
\* An attribute that every instance would share with the one before it.
ClassAttributeShared(last) == last

\* What a new instance reads from scrip_map_file_path, scrip_grid_file_path
\* and domain_file_path, lines 237-239: the class attribute, None, as the
\* instance before it, where the attribute was `last`, assigned to itself.
ClassAttribute(last) == None

\* "for site_dict in recipe_dict_list:", lines 1072-1075: the next recipe,
\* when the one before it has been packaged, and the start of its
\* SinglePointExtractor (lines 243-256).  calls and returned go on as the
\* history of the new instance; cmds stays the commands of the process.
for_site_dict ==
    /\ pc = "done"
    /\ recipe_dict_list # <<>>
    /\ instruction_dict' = Head(recipe_dict_list)
    /\ recipe_dict_list' = Tail(recipe_dict_list)
    /\ scrip_map_file_path' = ClassAttribute(scrip_map_file_path)
    /\ scrip_grid_file_path' = ClassAttribute(scrip_grid_file_path)
    /\ domain_file_path' = ClassAttribute(domain_file_path)
    /\ created_files_path_list' = <<>>
    /\ has_created_files_path_list' = FALSE
    /\ pc' = "local_output_dir"
    /\ prompts' = 0
    /\ calls' = <<>>
    /\ returned' = {}
    /\ archive' = NoArchive
    /\ user_input_rmdir' = ""
    /\ UNCHANGED <<cmds, dirs, files, raised, machine, fs_at_start, linebuf,
                   logged>>

\* Two recipes: the site ALP1 with its shared files pre-supplied, then
\* the site ALP2 with its shared files to make; both output directories of
\* ALP1 exist already.
InitLoop ==
    /\ instruction_dict = SiteRecipe("ALP1", "tar", "nowhere", "given", "given")
    /\ recipe_dict_list = <<SiteRecipe("ALP2", "tar", "nowhere", "new", "new")>>
    /\ pc = "main"
    /\ prompts = 0
    /\ dirs = Prefixes(Join(output_dir, "share")) \cup Prefixes(tar_output_dir)
    /\ files = {Join(output_dir, "old.nc")}
    /\ scrip_map_file_path = None
    /\ scrip_grid_file_path = None
    /\ domain_file_path = None
    /\ created_files_path_list = <<>>
    /\ cmds = <<>>
    /\ calls = <<>>
    /\ returned = {}
    /\ raised = NoExc
    /\ machine = NoMachine
    /\ user_input_rmdir = ""
    /\ has_created_files_path_list = FALSE
    /\ fs_at_start = [dirs |-> dirs, files |-> files]
    /\ archive = NoArchive
    /\ linebuf = <<>>
    /\ logged = <<>>

SpecLoop == InitLoop /\ [][Next \/ for_site_dict]_vars

\* One step of main() seen from its loop: the next recipe is taken only
\* when the packaging of the one before it has returned, it is the first of
\* the recipes left, and its processing starts with the construction; a run
\* that raised or exited takes no step.
RecipeOrderStep ==
    /\ recipe_dict_list' # recipe_dict_list =>
           /\ pc = "done"
           /\ "tar_output" \in returned
           /\ raised = NoExc
           /\ instruction_dict' = Head(recipe_dict_list)
           /\ recipe_dict_list' = Tail(recipe_dict_list)
           /\ pc' = "local_output_dir"
    /\ instruction_dict' # instruction_dict =>
           recipe_dict_list' # recipe_dict_list
    /\ pc \notin {"error", "exit"}

\* No tool has failed in a command of the recipe that ends here.
RecipeStep ==
    /\ RecipeOrderStep
    /\ recipe_dict_list' # recipe_dict_list => FailCount = 0

\* C23: the recipes are processed one at a time and in input order: a
\* recipe starts only after the packaging of the one before it, and not at
\* all when something failed in the one before it.
C23_RecipesInOrder == [][RecipeStep]_vars

\* `path` is one of the current recipe: null, below its output directory,
\* or the path it supplies for a shared file it marks as pre-existing.
OfThisRecipe(path) ==
    \/ path = None
    \/ IsUnder(path, output_dir)
    \/ \E e \in {<<"SCRIP", "map_path">>, <<"SCRIP", "grid_path">>,
                 <<"domain", "path">>} :
           /\ ~MarkedNew(e[1])
           /\ Supplied(e[1], e[2]).kind = "str"
           /\ path = PathOf(Supplied(e[1], e[2]).s)

\* C29: the Stage Context and the artifact list a recipe works with hold
\* nothing of the recipe processed before it.
C29_ContextPerRecipe ==
    /\ OfThisRecipe(scrip_map_file_path)
    /\ OfThisRecipe(scrip_grid_file_path)
    /\ OfThisRecipe(domain_file_path)
    /\ \A i \in 1..Len(created_files_path_list) :
           IsUnder(created_files_path_list[i], output_dir)

\* The second recipe has made its own domain file after the first one was
\* processed with pre-supplied shared files.
C29_Witness ==
    /\ recipe_dict_list = <<>>
    /\ site_code = "ALP2"
    /\ "_create_domain" \in returned
    /\ IsUnder(domain_file_path, output_dir)
    /\ created_files_path_list # <<>>

(***************************************************************************)
(* The prompt loops with an operator who answers in the end                *)
(***************************************************************************)
Answers == {"a", "A", "d", "D"}

\* The operator enters 'a' or 'd', in either case, at the prompt for the
\* local output directory, and at the one for the tar output directory.
AnswerLocal == PromptLocal /\ user_input_rmdir' \in Answers
AnswerTar == PromptTar /\ user_input_rmdir' \in Answers

InitPrompt ==
    /\ instruction_dict = Recipe("nowhere", "new", "new")
    /\ pc = "main"
    /\ prompts = 0
    /\ \E local \in BOOLEAN, tar \in BOOLEAN :
           /\ dirs = (IF local THEN Prefixes(Join(output_dir, "share")) ELSE {})
                     \cup (IF tar THEN Prefixes(tar_output_dir) ELSE {})
           /\ files = (IF local THEN {Join(output_dir, "old.nc")} ELSE {})
    /\ scrip_map_file_path = None
    /\ scrip_grid_file_path = None
    /\ domain_file_path = None
    /\ created_files_path_list = <<>>
    /\ cmds = <<>>
    /\ calls = <<>>
    /\ returned = {}
    /\ raised = NoExc
    /\ machine = NoMachine
    /\ user_input_rmdir = ""
    /\ has_created_files_path_list = FALSE
    /\ fs_at_start = [dirs |-> dirs, files |-> files]
    /\ archive = NoArchive
    /\ linebuf = <<>>
    /\ logged = <<>>
    /\ recipe_dict_list = <<>>

\* input() blocks until the operator answers; the operator is taken to
\* enter 'a' or 'd' in the end at each prompt.
SpecPrompt ==
    /\ InitPrompt
    /\ [][Next]_vars
    /\ WF_vars(AnswerLocal)
    /\ WF_vars(AnswerTar)

\* A prompt loop is left only on one of the four answers, and any other
\* input leaves the loop where it is and the filesystem as it is.
PromptLoopStep ==
    pc \in {"prompt_local", "prompt_tar"} =>
        /\ pc' # pc => user_input_rmdir' \in Answers
        /\ user_input_rmdir' \notin Answers =>
               pc' = pc /\ dirs' = dirs /\ files' = files

\* The process has ended: sys.exit() on 'a', or the exception of a failed
\* "rm -rf".
Ended == pc \in {"exit", "error"}

\* C31: a prompt loop ends exactly on 'a' or 'd' in either case: with an
\* operator who enters one of them in the end, the construction gets from
\* each prompt to the end of the process or goes on with the directory
\* deleted and made anew, empty; any other input keeps the loop where it is
\* and changes nothing in the filesystem.
C31_PromptLoopTerminates ==
    /\ [][PromptLoopStep]_vars
    /\ (pc = "prompt_local")
           ~> (Ended \/ (pc = "tar_output_dir"
                         /\ IsEmptyDir(output_dir, dirs, files)))
    /\ (pc = "prompt_tar")
           ~> (Ended \/ (pc = "input_checks"
                         /\ IsEmptyDir(tar_output_dir, dirs, files)))

\* The local output directory existed with a file in it, and the
\* construction went on to the tar output directory after 'd'.
C31_Witness ==
    /\ pc = "tar_output_dir"
    /\ user_input_rmdir = "d"
    /\ fs_at_start.files # {}
    /\ IsEmptyDir(output_dir, dirs, files)

(***************************************************************************)
(* create_site_forcing.py: plon_type, BaseCase.update_metadata             *)
(***************************************************************************)
\* The state in which one function of a module is about to be called on
\* its own, `start` naming it.
InitUnit(start) ==
    /\ instruction_dict = Recipe("nowhere", "new", "new")
    /\ pc = start
    /\ prompts = 0
    /\ dirs = {}
    /\ files = {}
    /\ scrip_map_file_path = None
    /\ scrip_grid_file_path = None
    /\ domain_file_path = None
    /\ created_files_path_list = <<>>
    /\ cmds = <<>>
    /\ calls = <<>>
    /\ returned = {}
    /\ raised = NoExc
    /\ machine = NoMachine
    /\ user_input_rmdir = ""
    /\ has_created_files_path_list = FALSE
    /\ fs_at_start = [dirs |-> {}, files |-> {}]
    /\ archive = NoArchive
    /\ recipe_dict_list = <<>>
    /\ linebuf = <<>>
    /\ logged = <<>>

\* What every action of a function called on its own leaves alone.
UnitFrame ==
    UNCHANGED <<instruction_dict, prompts, dirs, files, scrip_map_file_path,
                scrip_grid_file_path, domain_file_path,
                created_files_path_list, cmds, returned, machine,
                user_input_rmdir, has_created_files_path_list, fs_at_start,
                archive, recipe_dict_list>>

\* A longitude of n degrees; longitudes are counted in half degrees, so
\* that the arguments include values between the whole degrees.
Deg(n) == 2 * n

\* The arguments plon_type is tried with: -183 to 363 degrees.
Lons == Deg(0 - 183)..Deg(363)

\* plon_type(x), lines 230-243, after x = float(x): the value returned, or
\* the argparse.ArgumentTypeError raised.  Python's x % 360 of a negative x
\* is the non-negative remainder.
plon_type(x) ==
    LET y == IF Deg(0) - Deg(180) < x /\ x < Deg(0) THEN x % Deg(360) ELSE x
    IN  IF y < Deg(0) \/ y > Deg(360)
        THEN [raises |-> TRUE, value |-> x]
        ELSE [raises |-> FALSE, value |-> y]

\* One call of plon_type, as argparse makes it for --plon (line 59).
plon_type_call ==
    /\ pc = "plon_type"
    /\ \E x \in Lons :
        LET r == plon_type(x)
        IN  /\ calls' = Append(calls, [x |-> x, raises |-> r.raises,
                                       value |-> r.value])
            /\ IF r.raises
               THEN /\ raised' = Exc("ArgumentTypeError", "plon_type")
                    /\ pc' = "error"
               ELSE /\ pc' = "done"
                    /\ UNCHANGED raised
    /\ UnitFrame
    /\ UNCHANGED <<linebuf, logged>>

SpecLon == InitUnit("plon_type") /\ [][plon_type_call]_vars

\* C32: plon_type returns a value from 0 to 360 for every longitude from
\* -180 to 360, both ends included, a negative one being taken modulo 360,
\* and it raises the argument error for every longitude outside.
C32_LongitudeRange ==
    \A i \in 1..Len(calls) :
        LET c == calls[i]
        IN  IF Deg(0) - Deg(180) <= c.x /\ c.x <= Deg(360)
            THEN /\ ~c.raises
                 /\ Deg(0) <= c.value /\ c.value <= Deg(360)
                 /\ c.value = (IF c.x < Deg(0) THEN c.x % Deg(360) ELSE c.x)
            ELSE c.raises

\* nc.attrs is a dict, modelled as a function from the attribute names it
\* has to their values.  attrs[k] = v, and del(attrs[k]).
SetAttr(attrs, k, v) ==
    [n \in DOMAIN attrs \cup {k} |-> IF n = k THEN v ELSE attrs[n]]
DelAttr(attrs, k) == [n \in DOMAIN attrs \ {k} |-> attrs[n]]

\* del_attrs, lines 371-373: no comma stands between 'history' and
\* 'History_Log', and Python joins adjacent string literals into one.
del_attrs ==
    <<"source_code", "SVN_url", "hostname", "history" \o "History_Log",
      "Logname", "Host", "Version", "Compiler_Optimized">>

\* Lines 376-378: "for attr in del_attrs: if attr in attr_list: del ...".
RECURSIVE DelEach(_, _)
DelEach(attrs, names) ==
    IF names = <<>> THEN attrs
    ELSE DelEach(IF Head(names) \in DOMAIN attrs
                 THEN DelAttr(attrs, Head(names)) ELSE attrs,
                 Tail(names))

\* today_string, myname, and the path of the script with the git hash.
Created ==
    [Created_on |-> "2026-11-06", Created_by |-> "user",
     Created_with |-> "create_site_forcing.py -- sha"]

\* update_metadata(nc), lines 357-378, as the attrs it leaves.
update_metadata(attrs) ==
    DelEach(SetAttr(SetAttr(SetAttr(attrs,
                "Created_on", Created.Created_on),
                "Created_by", Created.Created_by),
                "Created_with", Created.Created_with),
            del_attrs)

\* The attribute names a file is tried with: the ones that are to go, one
\* that is to stay, and one that is to be set anew.
AttrNames ==
    {"source_code", "SVN_url", "hostname", "history", "History_Log",
     "Logname", "Host", "Version", "Compiler_Optimized", "title",
     "Created_by"}

\* One call of update_metadata on a file with any of these attributes.
update_metadata_call ==
    /\ pc = "update_metadata"
    /\ \E names \in SUBSET AttrNames :
        LET nc == [n \in names |-> "old"]
        IN  calls' = Append(calls, [before |-> nc, after |-> update_metadata(nc)])
    /\ pc' = "done"
    /\ UnitFrame
    /\ UNCHANGED <<raised, linebuf, logged>>

SpecMetadata == InitUnit("update_metadata") /\ [][update_metadata_call]_vars

Unrelated ==
    {"source_code", "SVN_url", "hostname", "history", "History_Log",
     "Logname", "Host", "Version", "Compiler_Optimized"}

\* C33: after update_metadata none of the nine unrelated attributes is
\* left, Created_on, Created_by and Created_with are set, and every other
\* attribute is as it was.
C33_MetadataUpdated ==
    \A i \in 1..Len(calls) :
        LET before == calls[i].before
            after == calls[i].after
        IN  /\ DOMAIN after \cap Unrelated = {}
            /\ \A k \in DOMAIN Created :
                   k \in DOMAIN after /\ after[k] = Created[k]
            /\ \A n \in (DOMAIN before \cup DOMAIN after)
                            \ (Unrelated \cup DOMAIN Created) :
                   /\ n \in DOMAIN before
                   /\ n \in DOMAIN after
                   /\ after[n] = before[n]

(***************************************************************************)
(* StreamToLogger (the same code in both files)                            *)
(***************************************************************************)
\* The characters written: a letter, a blank, and the two line ends that
\* the tools' output has.  A text is a sequence of characters.
Chars == {"a", " ", "\n", "\r"}

RECURSIVE TextsUpTo(_)
TextsUpTo(n) ==
    IF n = 0 THEN {<<>>}
    ELSE LET shorter == TextsUpTo(n - 1)
         IN  shorter \cup {Append(t, c) : t \in shorter, c \in Chars}

\* str.splitlines(True) on a text of these characters: a line ends after
\* "\n", after "\r", and after "\r\n" taken as one; the ends are kept.
\* `cur` is the line read so far.
RECURSIVE SplitFrom(_, _)
SplitFrom(text, cur) ==
    IF text = <<>> THEN (IF cur = <<>> THEN <<>> ELSE <<cur>>)
    ELSE IF Head(text) = "\r" /\ Len(text) >= 2 /\ text[2] = "\n"
    THEN <<cur \o <<"\r", "\n">> >> \o SplitFrom(SubSeq(text, 3, Len(text)), <<>>)
    ELSE IF Head(text) \in {"\n", "\r"}
    THEN <<Append(cur, Head(text))>> \o SplitFrom(Tail(text), <<>>)
    ELSE SplitFrom(Tail(text), Append(cur, Head(text)))

\* A splitting that knows "\n" as the only line end.
splitlines_at_newline(text) ==
    LET RECURSIVE From(_, _)
        From(t, cur) ==
            IF t = <<>> THEN (IF cur = <<>> THEN <<>> ELSE <<cur>>)
            ELSE IF Head(t) = "\n"
            THEN <<Append(cur, "\n")>> \o From(Tail(t), <<>>)
            ELSE From(Tail(t), Append(cur, Head(t)))
    IN  From(text, <<>>)

splitlines(text) == SplitFrom(text, <<>>)

\* str.rstrip(): the text without the white space at its end.
RECURSIVE rstrip(_)
rstrip(text) ==
    IF text # <<>> /\ text[Len(text)] \in {" ", "\n", "\r"}
    THEN rstrip(SubSeq(text, 1, Len(text) - 1))
    ELSE text

\* The loop of write(), lines 122-128 (658-664 in create_site_forcing.py),
\* over the lines from the i-th on: [linebuf, logged] after it.
RECURSIVE WriteLines(_, _, _, _)
WriteLines(lines, i, buf, log) ==
    IF i > Len(lines) THEN [linebuf |-> buf, logged |-> log]
    ELSE IF lines[i][Len(lines[i])] = "\n"
    THEN WriteLines(lines, i + 1, buf, Append(log, rstrip(lines[i])))
    ELSE WriteLines(lines, i + 1, buf \o lines[i], log)

\* write(buf)
write ==
    /\ pc = "StreamToLogger"
    /\ Len(calls) < MaxCalls
    /\ \E buf \in TextsUpTo(MaxBuf) :
        LET temp_linebuf == linebuf \o buf
            after == WriteLines(splitlines(temp_linebuf), 1, <<>>, logged)
        IN  /\ linebuf' = after.linebuf
            /\ logged' = after.logged
            /\ calls' = Append(calls, [op |-> "write", buf |-> buf])
    /\ UnitFrame
    /\ UNCHANGED <<pc, raised>>

\* flush(), lines 130-133 (666-669).
flush ==
    /\ pc = "StreamToLogger"
    /\ Len(calls) < MaxCalls
    /\ logged' = IF linebuf # <<>> THEN Append(logged, rstrip(linebuf))
                 ELSE logged
    /\ linebuf' = <<>>
    /\ calls' = Append(calls, [op |-> "flush", buf |-> <<>>])
    /\ UnitFrame
    /\ UNCHANGED <<pc, raised>>

SpecLogger == InitUnit("StreamToLogger") /\ [][write \/ flush]_vars

\* What a logger that takes the text line by line holds after the calls
\* from the i-th on, a line being the text up to a "\n": every line that is
\* complete is logged, without the white space at its end, and the rest is
\* kept for the next call; flush logs what is kept.
RECURSIVE ByLine(_, _, _, _)
ByLine(ops, i, buf, log) ==
    IF i > Len(ops) THEN [linebuf |-> buf, logged |-> log]
    ELSE IF ops[i].op = "flush"
    THEN ByLine(ops, i + 1, <<>>,
                IF buf # <<>> THEN Append(log, rstrip(buf)) ELSE log)
    ELSE LET lines == splitlines_at_newline(buf \o ops[i].buf)
             last == IF lines = <<>> THEN <<>> ELSE lines[Len(lines)]
             open == last # <<>> /\ last[Len(last)] # "\n"
             n == IF open THEN Len(lines) - 1 ELSE Len(lines)
         IN  ByLine(ops, i + 1, IF open THEN last ELSE <<>>,
                    log \o [k \in 1..n |-> rstrip(lines[k])])

\* C34: after any calls of write and flush the line buffer holds no "\n",
\* the lines completed so far have been logged once each in the order
\* written, what is kept is the text after the last of them, and after a
\* flush nothing is kept.
C34_LinesLoggedOnce ==
    /\ \A k \in 1..Len(linebuf) : linebuf[k] # "\n"
    /\ pc = "StreamToLogger" =>
           /\ [linebuf |-> linebuf, logged |-> logged]
                  = ByLine(calls, 1, <<>>, <<>>)
           /\ (calls # <<>> /\ calls[Len(calls)].op = "flush") => linebuf = <<>>

==============================================================================
